---------------------------- MODULE Spec2Model ----------------------------
(***************************************************************************)
(* Facility resolution workflow of the Open Apparel Registry:              *)
(* src/django/api/models.py (the four tables) and src/django/api/views.py  *)
(* (FacilityListViewSet.confirm_match / reject_match).                     *)
(*                                                                         *)
(* Spec      the handlers run one at a time, each as one atomic step.      *)
(* SpecConc  two requests run as concurrent database transactions, one     *)
(*           SQL statement per step, under READ COMMITTED row locking.     *)
(***************************************************************************)
EXTENDS Integers, Sequences, FiniteSets, TLC

VARIABLES
    lists,       \* FacilityList rows:      pk -> row
    items,       \* FacilityListItem rows:  pk -> row
    facilities,  \* Facility rows:          OAR id -> row
    matches,     \* FacilityMatch rows:     pk -> row
    request,     \* the request handled last
    response,    \* the response it got
    pre,         \* the committed tables as they were when that request started
    txn,         \* the transactions in flight (SpecConc)
    submitted    \* the lists submit_jobs was called for by the requests not yet over

vars == <<lists, items, facilities, matches, request, response, pre, txn, submitted>>

tables == <<lists, items, facilities, matches>>

---------------------------------------------------------------------------
(* Bounds of the model *)

\* facilities that exist before adjudication begins, each with its seed item
NumSeeds == 2
\* list items that the matching stage left for adjudication
NumItems == 1
\* OAR ids the generator can produce beyond those already taken at the start
SpareIds == 1

---------------------------------------------------------------------------
(* models.py: enumerations and null values *)

\* FacilityListItem.STATUS_CHOICES
ItemStatuses ==
    {"UPLOADED", "PARSED", "GEOCODED", "GEOCODED_NO_RESULTS", "MATCHED",
     "POTENTIAL_MATCH", "CONFIRMED_MATCH", "ERROR", "ERROR_PARSING",
     "ERROR_GEOCODING", "ERROR_MATCHING"}

\* FacilityListItem.ERROR_STATUSES
ERROR_STATUSES == {"ERROR", "ERROR_PARSING", "ERROR_GEOCODING", "ERROR_MATCHING"}

\* FacilityMatch.STATUS_CHOICES
MatchStatuses == {"PENDING", "AUTOMATIC", "CONFIRMED", "REJECTED"}

\* null of FacilityListItem.facility (null=True)
NoFacility == <<>>
\* null of FacilityListItem.geocoded_point (null=True)
NoPoint == <<>>
\* null of FacilityList.replaces (null=True): no row has pk 0
NoList == 0
\* null of FacilityList.contributor (null=True)
NoContributor == "none"

---------------------------------------------------------------------------
(* Principals: Contributor.admin is a one-to-one link to a User.  u3 is a   *)
(* user without a contributor (create_superuser makes one).                *)

Users == {"u1", "u2", "u3"}

Contributors == {"c1", "c2"}

\* request.user.contributor, defined for the users that administer one
contributor == [u \in {"u1", "u2"} |-> IF u = "u1" THEN "c1" ELSE "c2"]

ListIds == {1, 2}

\* the list an initial item belongs to: items alternate between the two lists
ListOf(k) == ((k - 1) % 2) + 1

CountryOf(k) == IF k % 2 = 1 THEN "US" ELSE "CN"

SeedItemIds == 1 .. NumSeeds

AdjItemIds == (NumSeeds + 1) .. (NumSeeds + NumItems)

\* the OAR ids make_oar_id can return for a country code
OarIds(cc) == {<<cc, n>> : n \in 1 .. (NumSeeds + SpareIds)}

SeedFacility(k) == <<CountryOf(k), k>>

Max(S) == CHOOSE x \in S : \A y \in S : y <= x

---------------------------------------------------------------------------
(* The state the pipeline hands over.  The parse / geocode / match stages   *)
(* are outside the two source files: a seed item is MATCHED to the facility *)
(* created from it through one AUTOMATIC match, and an item left for        *)
(* adjudication is in POTENTIAL_MATCH with one or more PENDING matches, with *)
(* or without a geocoded point.                                            *)

AllItemIds == SeedItemIds \cup AdjItemIds

RowIndex(k) == Cardinality({x \in 1 .. (k - 1) : ListOf(x) = ListOf(k)})

PipelineEntry(kind) ==
    [action |-> kind, started_at |-> "earlier", error |-> FALSE,
     message |-> "", finished_at |-> "earlier"]

PipelineLog == <<PipelineEntry("parse"), PipelineEntry("geocode"), PipelineEntry("match")>>

PointOf(k) == <<k, k>>

NameOf(k) == <<"name", k>>

AddressOf(k) == <<"address", k>>

RawDataOf(k) == <<"line", k>>

\* the name of an initial list, that of the file it was uploaded from
ListNameOf(l) == <<<<"facilities", "suppliers">>[l]>>

InitLists ==
    [l \in ListIds |->
        [contributor |-> IF l = 1 THEN "c1" ELSE "c2",
         name |-> ListNameOf(l),
         header |-> <<"country", "name", "address">>,
         is_active |-> TRUE, is_public |-> TRUE, replaces |-> NoList]]

InitFacilities ==
    [f \in {SeedFacility(k) : k \in SeedItemIds} |->
        LET k == f[2] IN
        [name |-> NameOf(k), address |-> AddressOf(k), country_code |-> CountryOf(k),
         location |-> PointOf(k), created_from |-> k]]

\* shape[i] = [npending, point] for every item left for adjudication
InitShapes == [AdjItemIds -> [npending : 1 .. NumSeeds, point : BOOLEAN]]

InitItems(shape) ==
    [k \in AllItemIds |->
        [facility_list |-> ListOf(k), row_index |-> RowIndex(k),
         raw_data |-> RawDataOf(k),
         status |-> IF k \in SeedItemIds THEN "MATCHED" ELSE "POTENTIAL_MATCH",
         geocoded_point |-> IF k \in SeedItemIds \/ shape[k].point
                            THEN PointOf(k) ELSE NoPoint,
         facility |-> IF k \in SeedItemIds THEN SeedFacility(k) ELSE NoFacility,
         processing_results |-> PipelineLog,
         name |-> NameOf(k), address |-> AddressOf(k), country_code |-> CountryOf(k)]]

\* pk of the c-th candidate match of the item k left for adjudication
CandidateId(k, c) == NumSeeds + (k - NumSeeds - 1) * NumSeeds + c

InitMatchIds(shape) ==
    SeedItemIds \cup
    UNION {{CandidateId(k, c) : c \in 1 .. shape[k].npending} : k \in AdjItemIds}

InitMatches(shape) ==
    [m \in InitMatchIds(shape) |->
        IF m \in SeedItemIds
        THEN [facility_list_item |-> m, facility |-> SeedFacility(m),
              confidence |-> 100, status |-> "AUTOMATIC", results |-> "no_gazetteer_match"]
        ELSE LET k == NumSeeds + 1 + ((m - NumSeeds - 1) \div NumSeeds)
                 c == ((m - NumSeeds - 1) % NumSeeds) + 1
             IN [facility_list_item |-> k, facility |-> SeedFacility(c),
                 confidence |-> 50 + c, status |-> "PENDING",
                 results |-> "gazetteer_match"]]

---------------------------------------------------------------------------
(* views.py: what confirm_match and reject_match share (lines 908-937 and   *)
(* 1061-1090).  db is the view of the four tables a statement reads.        *)

DB == [lists |-> lists, items |-> items, facilities |-> facilities, matches |-> matches]

NoError == [kind |-> "ok", detail |-> ""]

ValidationError(msg) == [kind |-> "validation", detail |-> msg]

\* raise NotFound()
NotFound == [kind |-> "not_found", detail |-> "Not found."]

\* an exception no except clause of the handler catches
ServerError(msg) == [kind |-> "server_error", detail |-> msg]

\* request.data.get(key) is None
Missing(data, key) == key \notin DOMAIN data

\* lines 912-916 / 1065-1069
MissingIdError(data) ==
    IF Missing(data, "list_item_id")
    THEN ValidationError("missing required list_item_id")
    ELSE IF Missing(data, "facility_match_id")
    THEN ValidationError("missing required facility_match_id")
    ELSE NoError

\* line 918 / 1071: request.user.contributor raises Contributor.DoesNotExist
\* for a user without one, which the handler does not catch
HasContributor(user) == user \in DOMAIN contributor

\* lines 919-922 / 1072-1075: FacilityList.objects.filter(contributor=...).get(pk=pk)
FindList(db, user, pk) ==
    /\ pk \in DOMAIN db.lists
    /\ db.lists[pk].contributor = contributor[user]

\* lines 923-926 / 1076-1079
FindItem(db, pk, list_item_id) ==
    /\ list_item_id \in DOMAIN db.items
    /\ db.items[list_item_id].facility_list = pk

\* lines 927-930 / 1080-1083
FindMatch(db, list_item_id, facility_match_id) ==
    /\ facility_match_id \in DOMAIN db.matches
    /\ db.matches[facility_match_id].facility_list_item = list_item_id

\* lines 909-930 / 1062-1083 with the except clauses of lines 960-965
ResolveError(db, req) ==
    IF MissingIdError(req.data) # NoError THEN MissingIdError(req.data)
    ELSE IF ~HasContributor(req.user) THEN ServerError("Contributor.DoesNotExist")
    ELSE IF ~FindList(db, req.user, req.pk) THEN NotFound
    ELSE IF ~FindItem(db, req.pk, req.data.list_item_id) THEN NotFound
    ELSE IF ~FindMatch(db, req.data.list_item_id, req.data.facility_match_id) THEN NotFound
    ELSE NoError


\* the two checks left out
PreconditionErrorUnchecked(facility_list_item, facility_match) == NoError

\* the check of the match's status left out
PreconditionErrorItemOnly(facility_list_item, facility_match) ==
    IF facility_list_item.status # "POTENTIAL_MATCH"
    THEN ValidationError("facility list item status must be POTENTIAL_MATCH")
    ELSE NoError

\* lines 932-937 / 1085-1090
PreconditionError(facility_list_item, facility_match) ==
    IF facility_list_item.status # "POTENTIAL_MATCH"
    THEN ValidationError("facility list item status must be POTENTIAL_MATCH")
    ELSE IF facility_match.status # "PENDING"
    THEN ValidationError("facility match status must be PENDING")
    ELSE NoError

\* model.save(): UPDATE of the whole row from the in-memory object
SaveRow(table, pk, row) == [table EXCEPT ![pk] = row]

\* objects.create(): INSERT of a new row
InsertRow(table, pk, row) ==
    [k \in DOMAIN table \cup {pk} |-> IF k = pk THEN row ELSE table[k]]

\* the statuses of the items of every list
ListStatusesOfAllLists(db, pk) == {db.items[k].status : k \in DOMAIN db.items}

\* lines 954-957 / 1151-1154: the distinct statuses of the list's items
ListStatuses(db, pk) ==
    {db.items[k].status : k \in {x \in DOMAIN db.items : db.items[x].facility_list = pk}}

\* lines 952-959 / 1149-1156
OkResponse(db, pk, list_item_id, facility_list_item) ==
    [kind |-> "ok", detail |-> "",
     item |-> {[id |-> list_item_id, fields |-> facility_list_item]},
     list_statuses |-> ListStatuses(db, pk)]

ErrorResponse(err) ==
    [kind |-> err.kind, detail |-> err.detail, item |-> {}, list_statuses |-> {}]

\* a handler that raised: transaction.atomic leaves the tables as they were
Failed(db, err) == [db |-> db, response |-> ErrorResponse(err)]

---------------------------------------------------------------------------
(* confirm_match, lines 939-950 *)

\* lines 939-940
ConfirmNamed(matchTable, facility_match_id, facility_match) ==
    SaveRow(matchTable, facility_match_id, [facility_match EXCEPT !.status = "CONFIRMED"])


\* the update without .filter(facility_list_item=list_item_id)
RejectOthersOfAnyItem(matchTable, list_item_id, facility_match_id) ==
    [k \in DOMAIN matchTable |->
        IF k # facility_match_id
        THEN [matchTable[k] EXCEPT !.status = "REJECTED"]
        ELSE matchTable[k]]

\* the update without .exclude(pk=facility_match_id)
RejectOthersAndNamed(matchTable, list_item_id, facility_match_id) ==
    [k \in DOMAIN matchTable |->
        IF matchTable[k].facility_list_item = list_item_id
        THEN [matchTable[k] EXCEPT !.status = "REJECTED"]
        ELSE matchTable[k]]

\* lines 942-946: filter(facility_list_item=...).exclude(pk=...).update(REJECTED)
RejectOthers(matchTable, list_item_id, facility_match_id) ==
    [k \in DOMAIN matchTable |->
        IF /\ matchTable[k].facility_list_item = list_item_id
           /\ k # facility_match_id
        THEN [matchTable[k] EXCEPT !.status = "REJECTED"]
        ELSE matchTable[k]]


\* the status set and the facility link forgotten
ConfirmedItemUnlinked(facility_list_item, facility_match) ==
    [facility_list_item EXCEPT !.status = "CONFIRMED_MATCH"]

\* lines 948-949
ConfirmedItem(facility_list_item, facility_match) ==
    [facility_list_item EXCEPT !.status = "CONFIRMED_MATCH",
                               !.facility = facility_match.facility]

\* the whole handler, lines 908-965, as a function of the tables and the request
confirm_match(db, req) ==
    IF ResolveError(db, req) # NoError THEN Failed(db, ResolveError(db, req))
    ELSE
    LET list_item_id == req.data.list_item_id
        facility_match_id == req.data.facility_match_id
        facility_list_item == db.items[list_item_id]
        facility_match == db.matches[facility_match_id]
    IN
    IF PreconditionError(facility_list_item, facility_match) # NoError
    THEN Failed(db, PreconditionError(facility_list_item, facility_match))
    ELSE
    LET saved == ConfirmNamed(db.matches, facility_match_id, facility_match)
        updated == RejectOthers(saved, list_item_id, facility_match_id)
        item1 == ConfirmedItem(facility_list_item, facility_match)
        db1 == [db EXCEPT !.matches = updated,
                          !.items = SaveRow(db.items, list_item_id, item1)]
    IN [db |-> db1, response |-> OkResponse(db1, req.pk, list_item_id, item1)]

---------------------------------------------------------------------------
(* reject_match, lines 1092-1147, and Facility.save, models.py 383-391 *)

\* lines 1092-1093
RejectNamed(matchTable, facility_match_id, facility_match) ==
    SaveRow(matchTable, facility_match_id, [facility_match EXCEPT !.status = "REJECTED"])


\* the count filtered on AUTOMATIC instead of PENDING
remaining_automatic_matches(matchTable, list_item_id) ==
    {k \in DOMAIN matchTable :
        /\ matchTable[k].facility_list_item = list_item_id
        /\ matchTable[k].status = "AUTOMATIC"}

\* the count without the filter on the status
remaining_matches(matchTable, list_item_id) ==
    {k \in DOMAIN matchTable : matchTable[k].facility_list_item = list_item_id}

\* lines 1095-1098: the item's matches that are still PENDING
remaining_potential_matches(matchTable, list_item_id) ==
    {k \in DOMAIN matchTable :
        /\ matchTable[k].facility_list_item = list_item_id
        /\ matchTable[k].status = "PENDING"}

\* lines 1105-1109, evaluated on the in-memory item
CannotCreateFacility(facility_list_item) ==
    LET no_location == facility_list_item.geocoded_point = NoPoint
        no_geocoding_results == facility_list_item.status = "GEOCODED_NO_RESULTS"
    IN no_location \/ no_geocoding_results

\* str(datetime.utcnow()): the wall clock is one opaque value
timestamp == "utcnow"


\* the log assigned instead of appended to
ErrorMatchingItemLogReplaced(facility_list_item) ==
    [facility_list_item EXCEPT
        !.status = "ERROR_MATCHING",
        !.processing_results =
            <<[action |-> "ProcessingAction.CONFIRM",
               started_at |-> timestamp,
               error |-> TRUE,
               message |-> "Unable to create a new facility from an item with no geocoded location",
               finished_at |-> timestamp]>>]

\* lines 1110-1119
ErrorMatchingItem(facility_list_item) ==
    [facility_list_item EXCEPT
        !.status = "ERROR_MATCHING",
        !.processing_results =
            Append(@, [action |-> "ProcessingAction.CONFIRM",
                       started_at |-> timestamp,
                       error |-> TRUE,
                       message |-> "Unable to create a new facility from an item with no geocoded location",
                       finished_at |-> timestamp])]

\* lines 1121-1127: the row of the facility created from the item
NewFacilityRow(list_item_id, facility_list_item) ==
    [name |-> facility_list_item.name,
     address |-> facility_list_item.address,
     country_code |-> facility_list_item.country_code,
     location |-> facility_list_item.geocoded_point,
     created_from |-> list_item_id]

\* models.py 384-390: the ids the loop can end with, a candidate of
\* make_oar_id(country_code) that no existing facility has
FreeOarIds(facilityTable, country_code) ==
    {id \in OarIds(country_code) : id \notin DOMAIN facilityTable}


\* created_from as a plain foreign key, without the unique constraint
CreatedFromTakenNever(facilityTable, list_item_id) == FALSE

\* Facility.created_from is a OneToOneField: a second facility created from
\* the same item violates its unique constraint
CreatedFromTaken(facilityTable, list_item_id) ==
    \E f \in DOMAIN facilityTable : facilityTable[f].created_from = list_item_id


\* the fallback match created with the status of a machine-made match
FallbackMatchRowAutomatic(list_item_id, new_facility) ==
    [facility_list_item |-> list_item_id, facility |-> new_facility,
     confidence |-> 100, status |-> "AUTOMATIC",
     results |-> "all_potential_matches_rejected"]

\* lines 1130-1140: the row of the fallback match
FallbackMatchRow(list_item_id, new_facility) ==
    [facility_list_item |-> list_item_id, facility |-> new_facility,
     confidence |-> 100, status |-> "CONFIRMED",
     results |-> "all_potential_matches_rejected"]

\* the pk the database gives a new match row
NextMatchId(matchTable) == Max(DOMAIN matchTable \cup {0}) + 1

\* lines 1142-1145
FacilityCreatedItem(facility_list_item, new_facility) ==
    [facility_list_item EXCEPT !.facility = new_facility,
                               !.status = "CONFIRMED_MATCH"]

\* the whole handler, lines 1061-1162: the set of its possible outcomes (one
\* per OAR id that Facility.save can end with)
reject_match(db, req) ==
    IF ResolveError(db, req) # NoError THEN {Failed(db, ResolveError(db, req))}
    ELSE
    LET list_item_id == req.data.list_item_id
        facility_match_id == req.data.facility_match_id
        facility_list_item == db.items[list_item_id]
        facility_match == db.matches[facility_match_id]
    IN
    IF PreconditionError(facility_list_item, facility_match) # NoError
    THEN {Failed(db, PreconditionError(facility_list_item, facility_match))}
    ELSE
    LET saved == RejectNamed(db.matches, facility_match_id, facility_match)
        db1 == [db EXCEPT !.matches = saved]
    IN
    IF remaining_potential_matches(saved, list_item_id) # {}
    THEN {[db |-> db1,
           response |-> OkResponse(db1, req.pk, list_item_id, facility_list_item)]}
    ELSE IF CannotCreateFacility(facility_list_item)
    THEN LET item1 == ErrorMatchingItem(facility_list_item)
             db2 == [db1 EXCEPT !.items = SaveRow(db.items, list_item_id, item1)]
         IN {[db |-> db2, response |-> OkResponse(db2, req.pk, list_item_id, item1)]}
    ELSE IF CreatedFromTaken(db.facilities, list_item_id)
    THEN {Failed(db, ServerError("IntegrityError"))}
    ELSE
    {LET item1 == FacilityCreatedItem(facility_list_item, new_facility)
         db2 == [db1 EXCEPT
                    !.facilities = InsertRow(db.facilities, new_facility,
                                       NewFacilityRow(list_item_id, facility_list_item)),
                    !.matches = InsertRow(saved, NextMatchId(saved),
                                       FallbackMatchRow(list_item_id, new_facility)),
                    !.items = SaveRow(db.items, list_item_id, item1)]
     IN [db |-> db2, response |-> OkResponse(db2, req.pk, list_item_id, item1)]
     : new_facility \in FreeOarIds(db.facilities, facility_list_item.country_code)}

---------------------------------------------------------------------------
(* create, lines 564-694, and _validate_header, lines 552-562.  A posted    *)
(* file is a header line and data lines; a line is the sequence of its      *)
(* tokens, the last one the line break, or bytes that do not decode.        *)

\* CsvHeaderField.COUNTRY, NAME, ADDRESS
RequiredFields == {"country", "name", "address"}

\* str.rstrip(): the trailing white space taken off
RECURSIVE rstrip(_)
rstrip(text) ==
    IF text # <<>> /\ text[Len(text)] \in {"\n", " "}
    THEN rstrip(SubSeq(text, 1, Len(text) - 1))
    ELSE text

\* str.lower() on the field names the model uses
lower(field) ==
    IF field = "Country" THEN "country"
    ELSE IF field = "Name" THEN "name"
    ELSE IF field = "Address" THEN "address"
    ELSE field

\* parse_csv_line(header): the fields of the line, in order
parse_csv_line(header) == header

\* the default of a CharField that is given no value
EmptyString == <<>>


\* the check that asks for any one of the three fields
HeaderErrorAnyField(header) ==
    IF header = EmptyString THEN ValidationError("Header cannot be blank.")
    ELSE LET parsed_header == {lower(parse_csv_line(header)[i]) : i \in 1 .. Len(header)}
         IN IF RequiredFields \cap parsed_header = {}
            THEN ValidationError("Header must contain country, name, and address fields.")
            ELSE NoError

\* lines 552-562: _validate_header
HeaderError(header) ==
    IF header = EmptyString THEN ValidationError("Header cannot be blank.")
    ELSE LET parsed_header == {lower(parse_csv_line(header)[i]) : i \in 1 .. Len(header)}
         IN IF \/ "country" \notin parsed_header
               \/ "name" \notin parsed_header
               \/ "address" \notin parsed_header
            THEN ValidationError("Header must contain country, name, and address fields.")
            ELSE NoError

\* lines 595-603: the checks on request.data['file']
FileError(data) ==
    IF Missing(data, "file") THEN ValidationError("No file specified.")
    ELSE IF data.file.type # "InMemoryUploadedFile"
    THEN ValidationError("File not submitted properly.")
    ELSE IF data.file.oversize
    THEN ValidationError("Uploaded file exceeds the maximum size.")
    ELSE NoError

UnsupportedEncoding == ValidationError("Unsupported file encoding. Please submit a UTF-8 CSV.")

\* lines 607-618 / 676-687: the except clause of a line that does not
\* decode.  With ROLLBAR set it reads request.user.contributor.id for the
\* report, which raises for a user without a contributor
DecodeErrors(user) ==
    {UnsupportedEncoding} \cup
    (IF HasContributor(user) THEN {} ELSE {ServerError("Contributor.DoesNotExist")})

\* int(request.data['replaces']) succeeds
IsInteger(value) == value[1] = "int"


\* the filter on pk=replaces alone, without contributor=contributor
OwnListOfAnyContributor(db, user, replaces) == replaces \in DOMAIN db.lists

\* lines 643-645: contributor=contributor, pk=replaces
OwnList(db, user, replaces) ==
    /\ replaces \in DOMAIN db.lists
    /\ db.lists[replaces].contributor = contributor[user]

\* line 649: FacilityList.objects.filter(replaces=replaces)
Replacers(listTable, replaces) == {l \in DOMAIN listTable : listTable[l].replaces = replaces}


\* replaces without the unique constraint, a plain foreign key
ReplacesTakenNever(listTable, replaces) == FALSE

\* models.py 210-217: replaces is a OneToOneField, unique: a row that names
\* a list another row names is refused
ReplacesTaken(listTable, replaces) ==
    replaces # NoList /\ Replacers(listTable, replaces) # {}

\* lines 637-652: the checks on request.data['replaces']
ReplacesError(db, user, data) ==
    IF Missing(data, "replaces") THEN NoError
    ELSE IF ~IsInteger(data.replaces)
    THEN ValidationError("replaces must be an integer ID.")
    ELSE IF ~OwnList(db, user, data.replaces[2])
    THEN ValidationError("not a valid FacilityList ID.")
    ELSE IF Replacers(db.lists, data.replaces[2]) # {}
    THEN ValidationError("FacilityList has already been replaced.")
    ELSE NoError

\* os.path.splitext: the file name without its extension, and the extension
splitext(file_name) ==
    <<SubSeq(file_name, 1, Len(file_name) - 1), file_name[Len(file_name)]>>

\* lines 626-629: the name posted, or else the name of the file
ListName(data) ==
    IF ~Missing(data, "name") THEN data.name ELSE splitext(data.file.name)[1]

\* lines 654-661: the row of the new list; is_active and is_public take
\* their default, True
NewListRow(owner, name, header, replaces) ==
    [contributor |-> owner, name |-> name, header |-> header,
     is_active |-> TRUE, is_public |-> TRUE, replaces |-> replaces]

\* the pk the database gives a new list row
NextListId(listTable) == Max(DOMAIN listTable \cup {0}) + 1


\* the replaced list left as it is
DeactivateNothing(listTable, replaces) == listTable

\* lines 663-665: replaces.is_active = False; replaces.save()
Deactivate(listTable, replaces) ==
    IF replaces = NoList THEN listTable
    ELSE SaveRow(listTable, replaces, [listTable[replaces] EXCEPT !.is_active = FALSE])

\* iterating the file starts over from its first line, the header
FileLines(csv_file) == <<csv_file.header>> \o csv_file.lines

\* lines 671-675: FacilityListItem(row_index, facility_list, raw_data), the
\* other fields at their defaults
NewItemRow(new_list, row_index, line) ==
    [facility_list |-> new_list, row_index |-> row_index,
     raw_data |-> rstrip(line.text),
     status |-> "UPLOADED", geocoded_point |-> NoPoint, facility |-> NoFacility,
     processing_results |-> <<>>,
     name |-> EmptyString, address |-> EmptyString, country_code |-> EmptyString]


\* the header line not skipped and the index not shifted
NewItemsFromFirstLine(new_list, csv_file) ==
    [idx \in 0 .. (Len(FileLines(csv_file)) - 1) |->
        NewItemRow(new_list, idx, FileLines(csv_file)[idx + 1])]

\* lines 667-675: for idx, line in enumerate(csv_file): if idx > 0: the
\* items of the data lines, by idx
NewItems(new_list, csv_file) ==
    [idx \in 1 .. (Len(FileLines(csv_file)) - 1) |->
        NewItemRow(new_list, idx - 1, FileLines(csv_file)[idx + 1])]

\* line 688: bulk_create gives the rows consecutive pks in the order of the
\* list
BulkCreate(itemTable, new_items) ==
    LET first == Max(DOMAIN itemTable \cup {0}) + 1
        idxs == DOMAIN new_items
        Rank(idx) == Cardinality({x \in idxs : x < idx})
    IN [k \in DOMAIN itemTable \cup {first + Rank(idx) : idx \in idxs} |->
            IF k \in DOMAIN itemTable THEN itemTable[k]
            ELSE new_items[CHOOSE idx \in idxs : first + Rank(idx) = k]]

\* lines 693-694: the serialized new list
ListResponse(new_pk, new_list) ==
    [kind |-> "ok", detail |-> "",
     item |-> {[id |-> new_pk, fields |-> new_list]},
     list_statuses |-> {}]

\* line 32: ENVIRONMENT comes from the settings of the deployment
Environments == {"Development", "Staging", "Production"}

\* api.aws_batch.submit_jobs: the pipeline is told, once, that the list is
\* ready for processing
submit_jobs(environment, facility_list) == {facility_list}

\* lines 690-691
JobsSubmitted(environment, new_pk) ==
    IF environment \in {"Staging", "Production"}
    THEN submit_jobs(environment, new_pk)
    ELSE {}

\* an exception leaves create: the request is rolled back and no job was
\* submitted
Refused(db, err) == [db |-> db, response |-> ErrorResponse(err), submitted |-> {}]

\* the whole handler, lines 595-694: the set of its possible outcomes (the
\* two of a header that does not decode, with ROLLBAR set or not, and those
\* of the values of ENVIRONMENT)
create(db, req) ==
    IF FileError(req.data) # NoError THEN {Refused(db, FileError(req.data))}
    ELSE
    LET csv_file == req.data.file IN
    IF ~csv_file.header.decodable THEN {Refused(db, e) : e \in DecodeErrors(req.user)}
    ELSE
    LET header == rstrip(csv_file.header.text) IN
    IF HeaderError(header) # NoError THEN {Refused(db, HeaderError(header))}
    ELSE IF ~HasContributor(req.user)
    THEN {Refused(db, ValidationError("User contributor cannot be None"))}
    ELSE IF ReplacesError(db, req.user, req.data) # NoError
    THEN {Refused(db, ReplacesError(db, req.user, req.data))}
    ELSE
    LET replaces == IF Missing(req.data, "replaces") THEN NoList ELSE req.data.replaces[2]
        new_pk == NextListId(db.lists)
        new_list == NewListRow(contributor[req.user], ListName(req.data), header, replaces)
    IN
    \* line 661, new_list.save(): the INSERT
    IF ReplacesTaken(db.lists, replaces)
    THEN {Refused(db, ServerError("IntegrityError"))}
    ELSE
    LET saved == Deactivate(InsertRow(db.lists, new_pk, new_list), replaces) IN
    IF \E idx \in 1 .. Len(csv_file.lines) : ~csv_file.lines[idx].decodable
    THEN {Refused(db, e) : e \in DecodeErrors(req.user)}
    ELSE
    LET db1 == [db EXCEPT !.lists = saved,
                          !.items = BulkCreate(db.items, NewItems(new_pk, csv_file))]
    IN {[db |-> db1, response |-> ListResponse(new_pk, new_list),
         submitted |-> JobsSubmitted(environment, new_pk)] :
            environment \in Environments}

---------------------------------------------------------------------------
(* The requests: any user, any list pk, and a body with or without each id, *)
(* the ids ranging over the rows that exist and one pk that does not.       *)

PkChoices(table) == DOMAIN table \cup {Max(DOMAIN table \cup {0}) + 1}

Bodies ==
    {[list_item_id |-> i, facility_match_id |-> m] :
        i \in PkChoices(items), m \in PkChoices(matches)}
    \cup {[list_item_id |-> i] : i \in PkChoices(items)}
    \cup {[facility_match_id |-> m] : m \in PkChoices(matches)}

Requests(op) ==
    {[op |-> op, user |-> u, pk |-> pk, data |-> d] :
        u \in Users, pk \in PkChoices(lists), d \in Bodies}

\* the two request slots of SpecConc
Txns == {"t1", "t2"}

\* between two requests: nothing is being handled and no response is pending
NoRequest == [op |-> "none", user |-> "u1", pk |-> 0, data |-> <<>>]

NoResponse == ErrorResponse([kind |-> "none", detail |-> ""])

\* a slot with no request in it: item and match are the in-memory objects
\* facility_list_item and facility_match, w_* the rows the transaction has
\* written and not yet committed
IdleTxn ==
    [pc |-> "idle", req |-> NoRequest, item |-> <<>>, match |-> <<>>,
     w_items |-> <<>>, w_matches |-> <<>>, w_facilities |-> <<>>, w_lists |-> <<>>,
     new_facility |-> NoFacility, discarded |-> {}, response |-> NoResponse]

Init ==
    /\ \E shape \in InitShapes :
        /\ items = InitItems(shape)
        /\ matches = InitMatches(shape)
    /\ lists = InitLists
    /\ facilities = InitFacilities
    /\ request = NoRequest
    /\ response = NoResponse
    /\ pre = DB
    /\ submitted = {}
    /\ txn = [t \in Txns |-> IdleTxn]

Commit(result) ==
    /\ lists' = result.db.lists
    /\ items' = result.db.items
    /\ facilities' = result.db.facilities
    /\ matches' = result.db.matches
    /\ response' = result.response

\* POST /api/facility-lists/{pk}/confirm/
ConfirmMatch ==
    /\ request = NoRequest
    /\ \E req \in Requests("confirm") :
        /\ request' = req
        /\ pre' = DB
        /\ Commit(confirm_match(DB, req))
        /\ UNCHANGED <<txn, submitted>>

\* POST /api/facility-lists/{pk}/reject/
RejectMatch ==
    /\ request = NoRequest
    /\ \E req \in Requests("reject") :
        /\ request' = req
        /\ pre' = DB
        /\ \E result \in reject_match(DB, req) : Commit(result)
        /\ UNCHANGED <<txn, submitted>>

\* the response reaches the client and the request is over
Deliver ==
    /\ request # NoRequest
    /\ request' = NoRequest
    /\ response' = NoResponse
    /\ pre' = DB
    /\ submitted' = {}
    /\ UNCHANGED <<tables, txn>>

Next == ConfirmMatch \/ RejectMatch \/ Deliver

Spec == Init /\ [][Next]_vars

---------------------------------------------------------------------------
(* SpecIngest: uploads beside the two adjudication handlers, one request at *)
(* a time.                                                                 *)

\* uploads that create a list
MaxUploads == 1

\* data lines of an uploaded file
MaxRows == 2

\* the header lines posted: the three fields in lower or mixed case, one of
\* them left out, an empty line, and bytes that are not UTF-8
HeaderLines ==
    {[decodable |-> TRUE, text |-> h] :
        h \in {<<"country", "name", "address", "\n">>,
               <<"Country", "Name", "Address", "\n">>,
               <<"name", "address", "\n">>,
               <<"country", "address", "\n">>,
               <<"country", "name", "\n">>,
               <<"\n">>}}
    \cup {[decodable |-> FALSE, text |-> <<>>]}

\* the text of the data line at position idx, one word and the line break
LineText(idx) == <<<<"first", "second", "third", "fourth">>[idx], "\n">>

\* the data line at position idx of a file: text that decodes, or not
DataLines(idx) ==
    {[decodable |-> TRUE, text |-> LineText(idx)],
     [decodable |-> FALSE, text |-> <<>>]}

\* csv_file.name of the files posted
UploadedFileName == <<"facilities", ".csv">>

\* the files with n data lines
FilesOfLength(n) ==
    {[type |-> "InMemoryUploadedFile", oversize |-> FALSE, name |-> UploadedFileName,
      header |-> h, lines |-> ls] :
        h \in HeaderLines,
        ls \in {f \in [1 .. n -> UNION {DataLines(idx) : idx \in 1 .. n}] :
                    \A idx \in 1 .. n : f[idx] \in DataLines(idx)}}

ValidHeaderLine == [decodable |-> TRUE, text |-> <<"country", "name", "address", "\n">>]

\* the files posted, with a value that is not a file and a file over the
\* size limit among them
Files ==
    UNION {FilesOfLength(n) : n \in 0 .. MaxRows}
    \cup {[type |-> "str", oversize |-> FALSE, name |-> UploadedFileName,
           header |-> ValidHeaderLine, lines |-> <<>>],
          [type |-> "InMemoryUploadedFile", oversize |-> TRUE, name |-> UploadedFileName,
           header |-> ValidHeaderLine, lines |-> <<>>]}

\* the values posted as replaces: the pk of a list or of none, or no number
ReplacesChoices == {<<"int", l>> : l \in PkChoices(lists)} \cup {<<"str", 0>>}

UploadBodies ==
    {[file |-> f] : f \in Files}
    \cup {[file |-> f, replaces |-> r] : f \in Files, r \in ReplacesChoices}
    \cup {<<>>}
    \cup {[replaces |-> r] : r \in ReplacesChoices}

UploadRequests ==
    {[op |-> "upload", user |-> u, pk |-> 0, data |-> d] : u \in Users, d \in UploadBodies}

\* POST /api/facility-lists/
Upload ==
    /\ request = NoRequest
    /\ \E req \in UploadRequests :
        /\ request' = req
        /\ pre' = DB
        /\ \E result \in create(DB, req) :
            /\ result.db # DB => Cardinality(DOMAIN lists) < Cardinality(ListIds) + MaxUploads
            /\ Commit(result)
            /\ submitted' = result.submitted
        /\ UNCHANGED txn


\* the identifier drawn anew whatever self.id is
FacilitySaveIdAlways(self_id, new_id) == new_id

\* models.py 384-390: only an object whose id is '' is given an identifier
FacilitySaveId(self_id, new_id) == IF self_id = EmptyString THEN new_id ELSE self_id

\* models.py 383-391: Facility.save() on a facility that exists.  With its
\* id kept, the UPDATE writes the row back; with another id the row would be
\* written a second time, against the unique created_from
SaveFacility ==
    /\ request = NoRequest
    /\ \E f \in DOMAIN facilities : \E new_id \in OarIds(facilities[f].country_code) :
        /\ request' = [op |-> "save_facility", user |-> "u1", pk |-> 0,
                       data |-> [facility |-> f]]
        /\ pre' = DB
        /\ IF FacilitySaveId(f, new_id) = f
           THEN Commit([db |-> [DB EXCEPT !.facilities = SaveRow(facilities, f, facilities[f])],
                        response |-> ErrorResponse(NoError)])
           ELSE Commit(Failed(DB, ServerError("IntegrityError")))
        /\ UNCHANGED <<txn, submitted>>

NextIngest == Upload \/ ConfirmMatch \/ RejectMatch \/ SaveFacility \/ Deliver

SpecIngest == Init /\ [][NextIngest]_vars

---------------------------------------------------------------------------
(* SpecConc: the same two handlers as database transactions.  Each handler  *)
(* is decorated with transaction.atomic and takes no row lock when it       *)
(* reads (there is no select_for_update), so under the READ COMMITTED       *)
(* isolation of the database every statement reads the rows committed so    *)
(* far plus the transaction's own writes, an UPDATE or a conflicting INSERT *)
(* waits for the transaction that holds the row, and the writes of a        *)
(* transaction become visible to the others when it commits.               *)

Override(table, w) ==
    [k \in DOMAIN table \cup DOMAIN w |-> IF k \in DOMAIN w THEN w[k] ELSE table[k]]

\* what a statement of transaction t reads
View(t) ==
    [lists |-> Override(lists, txn[t].w_lists),
     items |-> Override(items, txn[t].w_items),
     facilities |-> Override(facilities, txn[t].w_facilities),
     matches |-> Override(matches, txn[t].w_matches)]

Others(t) == Txns \ {t}

\* match rows that a transaction other than t has written and holds
MatchesHeldByOthers(t) == UNION {DOMAIN txn[u].w_matches : u \in Others(t)}

ItemsHeldByOthers(t) == UNION {DOMAIN txn[u].w_items : u \in Others(t)}

FacilitiesHeldByOthers(t) == UNION {DOMAIN txn[u].w_facilities : u \in Others(t)}

SeedsHeldByOthers(t) ==
    UNION {{txn[u].w_facilities[f].created_from : f \in DOMAIN txn[u].w_facilities} :
            u \in Others(t)}

TxnItem(t) == txn[t].req.data.list_item_id

TxnMatch(t) == txn[t].req.data.facility_match_id

\* the other matches of the item, the rows of the UPDATE of lines 942-946
OtherMatchRows(t) ==
    {k \in DOMAIN View(t).matches :
        /\ View(t).matches[k].facility_list_item = TxnItem(t)
        /\ k # TxnMatch(t)}

\* the rows the next statement of t has to lock
RowsWanted(t) ==
    IF txn[t].pc = "save_match" THEN {TxnMatch(t)}
    ELSE IF txn[t].pc = "update_others" THEN OtherMatchRows(t)
    ELSE {}

\* the exception leaves the atomic block: the writes are rolled back
Abort(t, err) ==
    txn' = [txn EXCEPT ![t] = [IdleTxn EXCEPT !.pc = "done", !.req = txn[t].req,
                                              !.response = ErrorResponse(err)]]

\* the requests of SpecConc: those of a contributor's administrator that
\* name one of the contributor's lists, an item of it and a match of the item
ResolvingRequests(op) == {req \in Requests(op) : ResolveError(DB, req) = NoError}

\* a request arrives in a free slot
Begin(t) ==
    /\ txn[t].pc = "idle"
    /\ \E op \in {"confirm", "reject"} : \E req \in ResolvingRequests(op) :
        txn' = [txn EXCEPT ![t] = [IdleTxn EXCEPT !.pc = "select_list", !.req = req]]
    /\ UNCHANGED <<tables, request, response, pre, submitted>>

\* lines 909-922 / 1062-1075
SelectList(t) ==
    /\ txn[t].pc = "select_list"
    /\ IF MissingIdError(txn[t].req.data) # NoError
       THEN Abort(t, MissingIdError(txn[t].req.data))
       ELSE IF ~HasContributor(txn[t].req.user)
       THEN Abort(t, ServerError("Contributor.DoesNotExist"))
       ELSE IF ~FindList(View(t), txn[t].req.user, txn[t].req.pk)
       THEN Abort(t, NotFound)
       ELSE txn' = [txn EXCEPT ![t].pc = "select_item"]
    /\ UNCHANGED <<tables, request, response, pre, submitted>>

\* lines 923-926 / 1076-1079: the item is read into facility_list_item
SelectItem(t) ==
    /\ txn[t].pc = "select_item"
    /\ IF ~FindItem(View(t), txn[t].req.pk, TxnItem(t))
       THEN Abort(t, NotFound)
       ELSE txn' = [txn EXCEPT ![t].pc = "select_match",
                               ![t].item = <<View(t).items[TxnItem(t)]>>]
    /\ UNCHANGED <<tables, request, response, pre, submitted>>

\* lines 927-937 / 1080-1090: the match is read into facility_match and the
\* two objects in memory are checked
SelectMatch(t) ==
    /\ txn[t].pc = "select_match"
    /\ IF ~FindMatch(View(t), TxnItem(t), TxnMatch(t))
       THEN Abort(t, NotFound)
       ELSE LET facility_match == View(t).matches[TxnMatch(t)] IN
            IF PreconditionError(txn[t].item[1], facility_match) # NoError
            THEN Abort(t, PreconditionError(txn[t].item[1], facility_match))
            ELSE txn' = [txn EXCEPT ![t].pc = "save_match",
                                    ![t].match = <<facility_match>>]
    /\ UNCHANGED <<tables, request, response, pre, submitted>>

\* lines 939-940 / 1092-1093: facility_match.save()
SaveMatch(t) ==
    /\ txn[t].pc = "save_match"
    /\ TxnMatch(t) \notin MatchesHeldByOthers(t)
    /\ LET op == txn[t].req.op
           written == IF op = "confirm"
                      THEN ConfirmNamed(View(t).matches, TxnMatch(t), txn[t].match[1])
                      ELSE RejectNamed(View(t).matches, TxnMatch(t), txn[t].match[1])
       IN txn' = [txn EXCEPT
                    ![t].pc = IF op = "confirm" THEN "update_others" ELSE "count_pending",
                    ![t].w_matches = Override(@, [k \in {TxnMatch(t)} |-> written[k]])]
    /\ UNCHANGED <<tables, request, response, pre, submitted>>

\* lines 942-950: the UPDATE of the other matches, then the item's fields
UpdateOthers(t) ==
    /\ txn[t].pc = "update_others"
    /\ OtherMatchRows(t) \cap MatchesHeldByOthers(t) = {}
    /\ LET updated == RejectOthers(View(t).matches, TxnItem(t), TxnMatch(t))
       IN txn' = [txn EXCEPT
                    ![t].pc = "save_item",
                    ![t].w_matches = Override(@, [k \in OtherMatchRows(t) |-> updated[k]]),
                    ![t].item = <<ConfirmedItem(txn[t].item[1], txn[t].match[1])>>]
    /\ UNCHANGED <<tables, request, response, pre, submitted>>

\* lines 1095-1119: the count of the PENDING matches and the branch on it
CountPending(t) ==
    /\ txn[t].pc = "count_pending"
    /\ IF remaining_potential_matches(View(t).matches, TxnItem(t)) # {}
       THEN txn' = [txn EXCEPT ![t].pc = "commit"]
       ELSE IF CannotCreateFacility(txn[t].item[1])
       THEN txn' = [txn EXCEPT ![t].pc = "save_item",
                               ![t].item = <<ErrorMatchingItem(txn[t].item[1])>>]
       ELSE txn' = [txn EXCEPT ![t].pc = "pick_oar_id"]
    /\ UNCHANGED <<tables, request, response, pre, submitted>>

\* models.py 384-390: the loop ends with a candidate that no facility the
\* transaction can see has
PickOarId(t) ==
    /\ txn[t].pc = "pick_oar_id"
    /\ \E id \in FreeOarIds(View(t).facilities, txn[t].item[1].country_code) :
        txn' = [txn EXCEPT ![t].pc = "insert_facility", ![t].new_facility = id]
    /\ UNCHANGED <<tables, request, response, pre, submitted>>

\* models.py 391 for views.py 1121-1127: the INSERT waits for a transaction
\* that holds the same id or the same created_from, and fails on a committed one
InsertFacility(t) ==
    /\ txn[t].pc = "insert_facility"
    /\ txn[t].new_facility \notin FacilitiesHeldByOthers(t)
    /\ TxnItem(t) \notin SeedsHeldByOthers(t)
    /\ IF \/ txn[t].new_facility \in DOMAIN facilities
          \/ CreatedFromTaken(facilities, TxnItem(t))
       THEN Abort(t, ServerError("IntegrityError"))
       ELSE txn' = [txn EXCEPT
                ![t].pc = "insert_match",
                ![t].w_facilities =
                    Override(@, [k \in {txn[t].new_facility} |->
                                    NewFacilityRow(TxnItem(t), txn[t].item[1])])]
    /\ UNCHANGED <<tables, request, response, pre, submitted>>

\* the pk of a new match row: the sequence is shared by the transactions
NextMatchIdConc ==
    Max(DOMAIN matches \cup UNION {DOMAIN txn[u].w_matches : u \in Txns} \cup {0}) + 1

\* lines 1130-1145: the fallback match, then the item's fields
InsertMatch(t) ==
    /\ txn[t].pc = "insert_match"
    /\ txn' = [txn EXCEPT
            ![t].pc = "save_item",
            ![t].w_matches =
                Override(@, [k \in {NextMatchIdConc} |->
                                FallbackMatchRow(TxnItem(t), txn[t].new_facility)]),
            ![t].item = <<FacilityCreatedItem(txn[t].item[1], txn[t].new_facility)>>]
    /\ UNCHANGED <<tables, request, response, pre, submitted>>

\* line 950 / 1147: facility_list_item.save()
SaveItem(t) ==
    /\ txn[t].pc = "save_item"
    /\ TxnItem(t) \notin ItemsHeldByOthers(t)
    /\ txn' = [txn EXCEPT
            ![t].pc = "commit",
            ![t].w_items = Override(@, [k \in {TxnItem(t)} |-> txn[t].item[1]])]
    /\ UNCHANGED <<tables, request, response, pre, submitted>>

\* the item's save left out of what the commit makes visible
CommitTxnWithoutItem(t) ==
    /\ txn[t].pc = "commit"
    /\ matches' = View(t).matches
    /\ facilities' = View(t).facilities
    /\ txn' = [txn EXCEPT ![t] =
            [IdleTxn EXCEPT
                !.pc = "done", !.req = txn[t].req,
                !.item = txn[t].item, !.match = txn[t].match,
                !.response = OkResponse(View(t), txn[t].req.pk, TxnItem(t),
                                        txn[t].item[1])]]
    /\ UNCHANGED <<lists, items, request, response, pre, submitted>>

\* the handler returns: the atomic block commits and the response is built
\* from the object in memory and the statuses of the list's items
CommitTxn(t) ==
    /\ txn[t].pc = "commit"
    /\ items' = View(t).items
    /\ matches' = View(t).matches
    /\ facilities' = View(t).facilities
    /\ txn' = [txn EXCEPT ![t] =
            [IdleTxn EXCEPT
                !.pc = "done", !.req = txn[t].req,
                !.item = txn[t].item, !.match = txn[t].match,
                !.response = OkResponse(View(t), txn[t].req.pk, TxnItem(t),
                                        txn[t].item[1])]]
    /\ UNCHANGED <<lists, request, response, pre, submitted>>

\* two transactions each wait for a row the other holds: the database
\* ends one of them with an error
DeadlockAbort(t) ==
    /\ RowsWanted(t) \cap MatchesHeldByOthers(t) # {}
    /\ \E u \in Others(t) :
        /\ RowsWanted(t) \cap DOMAIN txn[u].w_matches # {}
        /\ RowsWanted(u) \cap DOMAIN txn[t].w_matches # {}
    /\ Abort(t, ServerError("deadlock detected"))
    /\ UNCHANGED <<tables, request, response, pre, submitted>>

\* the lists the upload of t created
CreatedBy(t) ==
    IF txn[t].req.op = "upload" /\ txn[t].response.kind = "ok"
    THEN {r.id : r \in txn[t].response.item}
    ELSE {}

\* the calls to submit_jobs that the request of t made
SubmittedBy(t) == submitted \cap CreatedBy(t)

\* the response reaches the client and the slot is free again
Finish(t) ==
    /\ txn[t].pc = "done"
    /\ txn' = [txn EXCEPT ![t] = IdleTxn]
    /\ submitted' = submitted \ SubmittedBy(t)
    /\ UNCHANGED <<tables, request, response, pre>>

NextConc ==
    \E t \in Txns :
        \/ Begin(t)
        \/ SelectList(t)
        \/ SelectItem(t)
        \/ SelectMatch(t)
        \/ SaveMatch(t)
        \/ UpdateOthers(t)
        \/ CountPending(t)
        \/ PickOarId(t)
        \/ InsertFacility(t)
        \/ InsertMatch(t)
        \/ SaveItem(t)
        \/ CommitTxn(t)
        \/ DeadlockAbort(t)
        \/ Finish(t)

SpecConc == Init /\ [][NextConc]_vars

---------------------------------------------------------------------------
(* SpecAllocSeq, SpecAlloc: Facility.save (models.py 383-391) statement by  *)
(* statement, for the facilities created from list items of one country,    *)
(* one creation at a time (SpecAllocSeq) or two at once, each in its own    *)
(* transaction (SpecAlloc).  discarded is the set of candidates the loop    *)
(* of a creation has thrown away.                                          *)

\* list items a facility is created from
NumAllocs == 2

\* the fixed country code of the allocations
AllocCountry == "US"

AllocItemIds == (NumSeeds + NumItems + 1) .. (NumSeeds + NumItems + NumAllocs)

\* a geocoded item of list 1 for which no facility exists yet
AllocItem(k) ==
    [facility_list |-> 1, row_index |-> k, raw_data |-> RawDataOf(k), status |-> "GEOCODED",
     geocoded_point |-> PointOf(k), facility |-> NoFacility,
     processing_results |-> SubSeq(PipelineLog, 1, 2),
     name |-> NameOf(k), address |-> AddressOf(k), country_code |-> AllocCountry]

InitAlloc ==
    /\ \E shape \in InitShapes :
        /\ items = [k \in AllItemIds \cup AllocItemIds |->
                        IF k \in AllocItemIds THEN AllocItem(k) ELSE InitItems(shape)[k]]
        /\ matches = InitMatches(shape)
    /\ lists = InitLists
    /\ facilities = InitFacilities
    /\ request = NoRequest
    /\ response = NoResponse
    /\ pre = DB
    /\ submitted = {}
    /\ txn = [t \in Txns |-> IdleTxn]

CreateFacilityRequest(k) ==
    [op |-> "create_facility", user |-> "u1", pk |-> 1, data |-> [list_item_id |-> k]]

\* the item of a creation that has begun and whose slot is not free again
ItemsInCreation == {TxnItem(u) : u \in {x \in Txns : txn[x].pc # "idle"}}

\* Facility.objects.create(..., created_from=item): a new object, its id ''
\* (line 384), for an item no creation has taken up
AllocBegin(t) ==
    /\ txn[t].pc = "idle"
    /\ \E k \in AllocItemIds :
        /\ ~CreatedFromTaken(facilities, k)
        /\ k \notin ItemsInCreation
        /\ txn' = [txn EXCEPT ![t] = [IdleTxn EXCEPT !.pc = "make_oar_id",
                                                     !.req = CreateFacilityRequest(k),
                                                     !.item = <<items[k]>>]]
    /\ UNCHANGED <<tables, request, response, pre, submitted>>

\* line 387: new_id = make_oar_id(self.country_code)
MakeOarId(t) ==
    /\ txn[t].pc = "make_oar_id"
    /\ \E new_id \in OarIds(txn[t].item[1].country_code) :
        txn' = [txn EXCEPT ![t].pc = "exists", ![t].new_facility = new_id]
    /\ UNCHANGED <<tables, request, response, pre, submitted>>


\* the candidate taken without the look-up
ExistsUnchecked(t) ==
    /\ txn[t].pc = "exists"
    /\ txn' = [txn EXCEPT ![t].pc = "super_save"]
    /\ UNCHANGED <<tables, request, response, pre, submitted>>

\* lines 388-390: a candidate that a facility has is dropped and the loop
\* goes round again, any other becomes self.id
Exists(t) ==
    /\ txn[t].pc = "exists"
    /\ IF txn[t].new_facility \in DOMAIN View(t).facilities
       THEN txn' = [txn EXCEPT ![t].pc = "make_oar_id",
                               ![t].new_facility = NoFacility,
                               ![t].discarded = @ \cup {txn[t].new_facility}]
       ELSE txn' = [txn EXCEPT ![t].pc = "super_save"]
    /\ UNCHANGED <<tables, request, response, pre, submitted>>

\* line 391: super().save(), the INSERT of the row.  It waits for a
\* transaction that holds the same id and fails on a committed one; the
\* exception is not caught and the loop is not entered again
SuperSave(t) ==
    /\ txn[t].pc = "super_save"
    /\ txn[t].new_facility \notin FacilitiesHeldByOthers(t)
    /\ IF txn[t].new_facility \in DOMAIN facilities
       THEN txn' = [txn EXCEPT ![t] =
                [IdleTxn EXCEPT !.pc = "done", !.req = txn[t].req,
                                !.new_facility = txn[t].new_facility,
                                !.discarded = txn[t].discarded,
                                !.response = ErrorResponse(ServerError("IntegrityError"))]]
       ELSE txn' = [txn EXCEPT
                ![t].pc = "created",
                ![t].w_facilities =
                    Override(@, [k \in {txn[t].new_facility} |->
                                    NewFacilityRow(TxnItem(t), txn[t].item[1])])]
    /\ UNCHANGED <<tables, request, response, pre, submitted>>

\* the transaction of the creation commits
AllocCommit(t) ==
    /\ txn[t].pc = "created"
    /\ facilities' = View(t).facilities
    /\ txn' = [txn EXCEPT ![t] =
            [IdleTxn EXCEPT !.pc = "done", !.req = txn[t].req,
                            !.new_facility = txn[t].new_facility,
                            !.discarded = txn[t].discarded,
                            !.response = ErrorResponse(NoError)]]
    /\ UNCHANGED <<lists, items, matches, request, response, pre, submitted>>

\* one creation after the other
NextAllocSeq ==
    \/ AllocBegin("t1")
    \/ MakeOarId("t1")
    \/ Exists("t1")
    \/ SuperSave("t1")
    \/ AllocCommit("t1")
    \/ Finish("t1")

SpecAllocSeq == InitAlloc /\ [][NextAllocSeq]_vars

NextAlloc ==
    \E t \in Txns :
        \/ AllocBegin(t)
        \/ MakeOarId(t)
        \/ Exists(t)
        \/ SuperSave(t)
        \/ AllocCommit(t)
        \/ Finish(t)

SpecAlloc == InitAlloc /\ [][NextAlloc]_vars

---------------------------------------------------------------------------
(* SpecUploadConc: create (views.py 564-694) as a database transaction, one *)
(* statement per step, two uploads at once.  The uploads are those whose    *)
(* file and header pass the checks made before the first query.            *)

\* uploads begun while the lists are counted
MaxConcUploads == 2

\* data lines of a file uploaded in SpecUploadConc
ConcRows == 1

UploadsThatParse ==
    {req \in UploadRequests :
        /\ FileError(req.data) = NoError
        /\ req.data.file.header = ValidHeaderLine
        /\ HeaderError(rstrip(req.data.file.header.text)) = NoError
        /\ Len(req.data.file.lines) <= ConcRows
        /\ HasContributor(req.user)
        /\ ~Missing(req.data, "replaces") => IsInteger(req.data.replaces)}

\* the hand-over with one candidate and a point for every item left for
\* adjudication: no step of an upload reads an item or a match
InitUpload ==
    /\ Init
    /\ \A k \in AdjItemIds :
        /\ items[k].geocoded_point # NoPoint
        /\ Cardinality({m \in DOMAIN matches : matches[m].facility_list_item = k}) = 1

\* the list the upload of t names in replaces, or none
TxnReplaces(t) ==
    IF Missing(txn[t].req.data, "replaces") THEN NoList ELSE txn[t].req.data.replaces[2]

\* the pk of the list the upload of t has inserted
TxnNewList(t) == CHOOSE n \in DOMAIN txn[t].w_lists : n \notin DOMAIN lists

InFlight == {u \in Txns : txn[u].pc \notin {"idle", "done"}}

\* lines 595-625: the request arrives and passes the checks on the file
UploadBegin(t) ==
    /\ txn[t].pc = "idle"
    /\ Cardinality(DOMAIN lists) + Cardinality(InFlight) < Cardinality(ListIds) + MaxConcUploads
    /\ \E req \in UploadsThatParse :
        txn' = [txn EXCEPT ![t] = [IdleTxn EXCEPT !.pc = "select_old_list", !.req = req]]
    /\ UNCHANGED <<tables, request, response, pre, submitted>>

\* lines 637-648: the list named in replaces is read into memory
SelectOldList(t) ==
    /\ txn[t].pc = "select_old_list"
    /\ IF TxnReplaces(t) = NoList
       THEN txn' = [txn EXCEPT ![t].pc = "insert_list"]
       ELSE IF ~OwnList(View(t), txn[t].req.user, TxnReplaces(t))
       THEN Abort(t, ValidationError("not a valid FacilityList ID."))
       ELSE txn' = [txn EXCEPT ![t].pc = "count_replacers",
                               ![t].item = <<View(t).lists[TxnReplaces(t)]>>]
    /\ UNCHANGED <<tables, request, response, pre, submitted>>

\* lines 649-652
CountReplacers(t) ==
    /\ txn[t].pc = "count_replacers"
    /\ IF Replacers(View(t).lists, TxnReplaces(t)) # {}
       THEN Abort(t, ValidationError("FacilityList has already been replaced."))
       ELSE txn' = [txn EXCEPT ![t].pc = "insert_list"]
    /\ UNCHANGED <<tables, request, response, pre, submitted>>

\* lists that a transaction other than t has written and holds
ListsHeldByOthers(t) == UNION {DOMAIN txn[u].w_lists : u \in Others(t)}

\* the list rows another transaction holds
ListRowsHeldByOthers(t) ==
    [n \in ListsHeldByOthers(t) |->
        txn[CHOOSE u \in Others(t) : n \in DOMAIN txn[u].w_lists].w_lists[n]]

\* the pks n new rows get: above every committed pk and apart from the pks
\* of rows a transaction holds (a pk whose transaction was rolled back is
\* given again, which keeps the pks bounded)
FreePks(committed, held, n) ==
    LET floor == Max(committed \cup {0})
        free == ((floor + 1) .. (floor + Cardinality(held) + n)) \ held
    IN {p \in free : Cardinality({q \in free : q < p}) < n}

\* the pk of a new list row
NextListIdConc ==
    Max(FreePks(DOMAIN lists, UNION {DOMAIN txn[u].w_lists : u \in Txns}, 1))

\* lines 654-661: the INSERT of the new list.  It waits for a transaction
\* that holds a row with the same replaces and fails on a committed one
InsertList(t) ==
    /\ txn[t].pc = "insert_list"
    /\ ~ReplacesTaken(ListRowsHeldByOthers(t), TxnReplaces(t))
    /\ IF ReplacesTaken(lists, TxnReplaces(t))
       THEN Abort(t, ServerError("IntegrityError"))
       ELSE txn' = [txn EXCEPT
                ![t].pc = IF TxnReplaces(t) = NoList THEN "bulk_create" ELSE "save_replaced",
                ![t].w_lists =
                    Override(@, [n \in {NextListIdConc} |->
                        NewListRow(contributor[txn[t].req.user],
                                   ListName(txn[t].req.data),
                                   rstrip(txn[t].req.data.file.header.text),
                                   TxnReplaces(t))])]
    /\ UNCHANGED <<tables, request, response, pre, submitted>>

\* lines 663-665: the UPDATE of the replaced list from the object in memory
SaveReplaced(t) ==
    /\ txn[t].pc = "save_replaced"
    /\ TxnReplaces(t) \notin ListsHeldByOthers(t)
    /\ LET written == Deactivate(SaveRow(View(t).lists, TxnReplaces(t), txn[t].item[1]),
                                 TxnReplaces(t))
       IN txn' = [txn EXCEPT
                ![t].pc = "bulk_create",
                ![t].w_lists = Override(@, [n \in {TxnReplaces(t)} |-> written[n]])]
    /\ UNCHANGED <<tables, request, response, pre, submitted>>

\* the item pks rows of a transaction hold
ItemPksHeld == UNION {DOMAIN txn[u].w_items : u \in Txns}

\* lines 667-688: the data lines are decoded and the items inserted
BulkCreateItems(t) ==
    /\ txn[t].pc = "bulk_create"
    /\ LET csv_file == txn[t].req.data.file IN
       IF \E idx \in 1 .. Len(csv_file.lines) : ~csv_file.lines[idx].decodable
       THEN Abort(t, UnsupportedEncoding)
       ELSE LET new_items == NewItems(TxnNewList(t), csv_file)
                pks == FreePks(DOMAIN items, ItemPksHeld, Cardinality(DOMAIN new_items))
                Nth(S, r) == CHOOSE p \in S : Cardinality({q \in S : q < p}) = r
            IN txn' = [txn EXCEPT
                    ![t].pc = "submit_jobs",
                    ![t].w_items =
                        [k \in pks |->
                            new_items[Nth(DOMAIN new_items,
                                          Cardinality({q \in pks : q < k}))]]]
    /\ UNCHANGED <<tables, request, response, pre, submitted>>

\* lines 690-691: submit_jobs is called inside the atomic block
SubmitJobs(t) ==
    /\ txn[t].pc = "submit_jobs"
    /\ \E environment \in Environments :
        submitted' = submitted \cup JobsSubmitted(environment, TxnNewList(t))
    /\ txn' = [txn EXCEPT ![t].pc = "commit_upload"]
    /\ UNCHANGED <<tables, request, response, pre>>

\* lines 693-694: the handler returns and the atomic block commits
UploadCommit(t) ==
    /\ txn[t].pc = "commit_upload"
    /\ lists' = View(t).lists
    /\ items' = View(t).items
    /\ txn' = [txn EXCEPT ![t] =
            [IdleTxn EXCEPT
                !.pc = "done", !.req = txn[t].req,
                !.response = ListResponse(TxnNewList(t), txn[t].w_lists[TxnNewList(t)])]]
    /\ UNCHANGED <<facilities, matches, request, response, pre, submitted>>

NextUploadConc ==
    \E t \in Txns :
        \/ UploadBegin(t)
        \/ SelectOldList(t)
        \/ CountReplacers(t)
        \/ InsertList(t)
        \/ SaveReplaced(t)
        \/ BulkCreateItems(t)
        \/ SubmitJobs(t)
        \/ UploadCommit(t)
        \/ Finish(t)

SpecUploadConc == InitUpload /\ [][NextUploadConc]_vars

---------------------------------------------------------------------------
(* Vocabulary of the properties: the request handled last, read against the *)
(* tables as they were before it (pre) and as they are now.                 *)

Handled(op) == request.op = op

Adjudication == Handled("confirm") \/ Handled("reject")

HasBothIds == {"list_item_id", "facility_match_id"} \subseteq DOMAIN request.data

ReqItem == request.data.list_item_id

ReqMatch == request.data.facility_match_id

\* the principal administers the contributor that owns the named list
OwnsNamedList ==
    /\ request.user \in DOMAIN contributor
    /\ request.pk \in DOMAIN pre.lists
    /\ pre.lists[request.pk].contributor = contributor[request.user]

ItemOfNamedList ==
    /\ ReqItem \in DOMAIN pre.items
    /\ pre.items[ReqItem].facility_list = request.pk

MatchOfNamedItem ==
    /\ ReqMatch \in DOMAIN pre.matches
    /\ pre.matches[ReqMatch].facility_list_item = ReqItem

\* the request names a list of the principal, an item of it and a match of it
WellAddressed == HasBothIds /\ OwnsNamedList /\ ItemOfNamedList /\ MatchOfNamedItem

\* the precondition of Confirm and Reject, on the state before the call
PreconditionHeld ==
    /\ pre.items[ReqItem].status = "POTENTIAL_MATCH"
    /\ pre.matches[ReqMatch].status = "PENDING"

RowsUnchanged == DB = pre

MatchesOf(matchTable, i) == {m \in DOMAIN matchTable : matchTable[m].facility_list_item = i}

\* the matches of item i, other than m, that were PENDING before the call
OtherPendingBefore ==
    {m \in MatchesOf(pre.matches, ReqItem) \ {ReqMatch} : pre.matches[m].status = "PENDING"}

NewFacilities == DOMAIN facilities \ DOMAIN pre.facilities

NewMatches == DOMAIN matches \ DOMAIN pre.matches

NothingCreated == NewFacilities = {} /\ NewMatches = {}

---------------------------------------------------------------------------
(* C1  Exclusivity: after any sequence of Confirm and Reject calls every    *)
(* list item has at most one match whose status is AUTOMATIC or CONFIRMED.  *)

PositiveMatches(i) ==
    {m \in MatchesOf(matches, i) : matches[m].status \in {"AUTOMATIC", "CONFIRMED"}}

C1_Exclusivity == \A i \in DOMAIN items : Cardinality(PositiveMatches(i)) <= 1

\* a Reject that exhausted the candidates has just added the fallback
\* CONFIRMED match, the only positive match of its item
C1_Witness ==
    /\ Handled("reject") /\ response.kind = "ok"
    /\ NewMatches # {}
    /\ Cardinality(PositiveMatches(ReqItem)) = 1

(* C2  Confirm(I, M) with I in POTENTIAL_MATCH and M PENDING sets M to      *)
(* CONFIRMED, every other match of I to REJECTED, I.facility to M's         *)
(* facility and I.status to CONFIRMED_MATCH.                               *)

C2_ConfirmEffect ==
    (Handled("confirm") /\ WellAddressed /\ PreconditionHeld) =>
        /\ response.kind = "ok"
        /\ matches[ReqMatch].status = "CONFIRMED"
        /\ \A m \in MatchesOf(matches, ReqItem) \ {ReqMatch} : matches[m].status = "REJECTED"
        /\ MatchesOf(matches, ReqItem) = MatchesOf(pre.matches, ReqItem)
        /\ items[ReqItem].facility = pre.matches[ReqMatch].facility
        /\ items[ReqItem].status = "CONFIRMED_MATCH"

\* a Confirm went through on an item that had another match PENDING
C2_Witness ==
    /\ Handled("confirm") /\ WellAddressed /\ PreconditionHeld
    /\ OtherPendingBefore # {}
    /\ matches[ReqMatch].status = "CONFIRMED"

\* a Confirm went through on an item whose other match was REJECTED before
C2_WitnessRejectedBefore ==
    /\ Handled("confirm") /\ WellAddressed /\ PreconditionHeld
    /\ \E m \in MatchesOf(pre.matches, ReqItem) \ {ReqMatch} :
            pre.matches[m].status = "REJECTED"

(* C3  Confirm is accepted only when the item is POTENTIAL_MATCH and the    *)
(* named match is PENDING; with any other combination it returns an error   *)
(* and no list, item, match or facility row changes.                       *)

C3_ConfirmPrecondition ==
    (Handled("confirm") /\ WellAddressed) =>
        /\ response.kind = "ok" <=> PreconditionHeld
        /\ ~PreconditionHeld => (response.kind = "validation" /\ RowsUnchanged)

\* a Confirm named a match that is no longer PENDING on an item still in
\* POTENTIAL_MATCH and was refused
C3_Witness ==
    /\ Handled("confirm") /\ WellAddressed
    /\ pre.items[ReqItem].status = "POTENTIAL_MATCH"
    /\ pre.matches[ReqMatch].status = "REJECTED"
    /\ response.kind = "validation"

(* C4  Reject has the precondition of Confirm: when the item is not         *)
(* POTENTIAL_MATCH or the named match is not PENDING it returns an error,   *)
(* changes no row and creates no facility or match.                        *)

C4_RejectPrecondition ==
    (Handled("reject") /\ WellAddressed /\ ~PreconditionHeld) =>
        /\ response.kind = "validation"
        /\ RowsUnchanged
        /\ NothingCreated

\* a Reject named the match of an item that is MATCHED and was refused
C4_Witness ==
    /\ Handled("reject") /\ WellAddressed
    /\ pre.items[ReqItem].status = "MATCHED"
    /\ pre.matches[ReqMatch].status = "AUTOMATIC"
    /\ response.kind = "validation"

\* a Reject named an already REJECTED match of a POTENTIAL_MATCH item
C4_WitnessMatchNotPending ==
    /\ Handled("reject") /\ WellAddressed
    /\ pre.items[ReqItem].status = "POTENTIAL_MATCH"
    /\ pre.matches[ReqMatch].status = "REJECTED"
    /\ response.kind = "validation"

(* C5  Reject(I, M) while another match of I is still PENDING sets M to     *)
(* REJECTED and changes nothing else: I stays POTENTIAL_MATCH with a null   *)
(* facility, the other matches keep their status, nothing is created.       *)

C5_RejectKeepsItemOpen ==
    (Handled("reject") /\ WellAddressed /\ PreconditionHeld /\ OtherPendingBefore # {}) =>
        /\ response.kind = "ok"
        /\ matches = [pre.matches EXCEPT ![ReqMatch].status = "REJECTED"]
        /\ items = pre.items
        /\ items[ReqItem].status = "POTENTIAL_MATCH"
        /\ items[ReqItem].facility = NoFacility
        /\ facilities = pre.facilities
        /\ lists = pre.lists
        /\ NothingCreated

C5_Witness ==
    /\ Handled("reject") /\ WellAddressed /\ PreconditionHeld
    /\ OtherPendingBefore # {}
    /\ matches[ReqMatch].status = "REJECTED"

(* C6  Reject-to-exhaustion with a geocoded point: exactly one Facility is  *)
(* created from I's name, address, country code and point with              *)
(* created_from = I, exactly one match of I to it is created, CONFIRMED     *)
(* with confidence 1.0, I.facility is the new facility and I.status is      *)
(* CONFIRMED_MATCH.                                                        *)

\* the Reject handled last left no PENDING match on its item
Exhausting ==
    /\ Handled("reject") /\ WellAddressed /\ PreconditionHeld
    /\ OtherPendingBefore = {}

C6_RejectCreatesFacility ==
    (Exhausting /\ pre.items[ReqItem].geocoded_point # NoPoint) =>
        /\ response.kind = "ok"
        /\ Cardinality(NewFacilities) = 1
        /\ Cardinality(NewMatches) = 1
        /\ \A f \in NewFacilities :
            /\ facilities[f].name = pre.items[ReqItem].name
            /\ facilities[f].address = pre.items[ReqItem].address
            /\ facilities[f].country_code = pre.items[ReqItem].country_code
            /\ facilities[f].location = pre.items[ReqItem].geocoded_point
            /\ facilities[f].created_from = ReqItem
            /\ items[ReqItem].facility = f
            /\ \A m \in NewMatches :
                /\ matches[m].facility_list_item = ReqItem
                /\ matches[m].facility = f
                /\ matches[m].status = "CONFIRMED"
                /\ matches[m].confidence = 100
        /\ items[ReqItem].status = "CONFIRMED_MATCH"
        /\ matches[ReqMatch].status = "REJECTED"

C6_Witness ==
    /\ Exhausting
    /\ pre.items[ReqItem].geocoded_point # NoPoint
    /\ Cardinality(MatchesOf(pre.matches, ReqItem)) > 1
    /\ NewFacilities # {}

(* C7  Reject-to-exhaustion without a geocoded point: I.status becomes      *)
(* ERROR_MATCHING, I.facility stays null, no Facility and no match is       *)
(* created, and exactly one error entry giving the reason is appended to    *)
(* I's processing results, the earlier entries kept.                       *)

C7_RejectWithoutPoint ==
    (Exhausting /\ pre.items[ReqItem].geocoded_point = NoPoint) =>
        /\ response.kind = "ok"
        /\ items[ReqItem].status = "ERROR_MATCHING"
        /\ items[ReqItem].facility = NoFacility
        /\ NothingCreated
        /\ facilities = pre.facilities
        /\ LET before == pre.items[ReqItem].processing_results
               after == items[ReqItem].processing_results
           IN /\ Len(after) = Len(before) + 1
              /\ SubSeq(after, 1, Len(before)) = before
              /\ after[Len(after)].error = TRUE
              /\ after[Len(after)].message # ""

C7_Witness ==
    /\ Exhausting
    /\ pre.items[ReqItem].geocoded_point = NoPoint
    /\ Len(pre.items[ReqItem].processing_results) > 0
    /\ items[ReqItem].status = "ERROR_MATCHING"

(* C8  Re-invocation fails: once an item has left POTENTIAL_MATCH for       *)
(* CONFIRMED_MATCH or ERROR_MATCHING, every later Confirm or Reject on it,  *)
(* with any of its matches, fails the precondition check and changes        *)
(* nothing.                                                                *)

C8_ReinvocationFails ==
    (Adjudication /\ WellAddressed
        /\ pre.items[ReqItem].status \in {"CONFIRMED_MATCH", "ERROR_MATCHING"}) =>
        /\ response.kind = "validation"
        /\ response.detail = "facility list item status must be POTENTIAL_MATCH"
        /\ RowsUnchanged

\* a second Reject on an item that the first one sent to ERROR_MATCHING
C8_Witness ==
    /\ Handled("reject") /\ WellAddressed
    /\ pre.items[ReqItem].status = "ERROR_MATCHING"
    /\ response.kind = "validation"

\* a Confirm on an item that an earlier call sent to CONFIRMED_MATCH
C8_WitnessConfirmed ==
    /\ Handled("confirm") /\ WellAddressed
    /\ pre.items[ReqItem].status = "CONFIRMED_MATCH"
    /\ response.kind = "validation"

(* C9  Adjudication on one item is mutually exclusive: of two concurrent    *)
(* Confirm/Reject calls on the same list item, in no interleaving do both   *)
(* pass the precondition check (item POTENTIAL_MATCH, match PENDING)        *)
(* against the same state of the item.                                     *)

\* transaction t has passed lines 932-937 / 1085-1090 and has not committed
PassedCheck(t) ==
    txn[t].pc \in {"save_match", "update_others", "count_pending", "pick_oar_id",
                   "insert_facility", "insert_match", "save_item", "commit"}

\* no commit lies between the two checks, so both read the same rows
C9_MutualExclusion ==
    \A t \in Txns : \A u \in Txns \ {t} :
        (PassedCheck(t) /\ PassedCheck(u)) => TxnItem(t) # TxnItem(u)

(* C10  Confirm and Reject change state only for the administrator of the   *)
(* contributor owning the named list, an item of that list and a match of   *)
(* that item; an unknown or unowned list, item or match id yields a         *)
(* not-found error, distinct from a validation error, with no row changed.  *)

\* the statement, for the requests that carry both ids
C10_NotFoundUnlessOwned ==
    (Adjudication /\ HasBothIds) =>
        /\ ~RowsUnchanged => WellAddressed
        /\ ~WellAddressed => (response.kind = "not_found" /\ RowsUnchanged)

\* what the handlers do: no row changes unless the request is well
\* addressed; with both ids and a principal that administers a contributor
\* the error is the not-found error, without one of the ids it is the
\* validation error whatever list is named, and for a principal without a
\* contributor the exception of request.user.contributor is not caught
C10_OwnershipEnforced ==
    Adjudication =>
        /\ ~RowsUnchanged => WellAddressed
        /\ ~WellAddressed => RowsUnchanged /\ response.kind # "ok"
        /\ (HasBothIds /\ request.user \in DOMAIN contributor /\ ~WellAddressed) =>
                response.kind = "not_found"
        /\ ~HasBothIds => response.kind = "validation"
        /\ (HasBothIds /\ request.user \notin DOMAIN contributor) =>
                response.kind = "server_error"

\* the administrator of another contributor named a list that exists, with
\* an item and a PENDING match that Confirm would have accepted
C10_Witness ==
    /\ Adjudication /\ HasBothIds
    /\ request.user \in DOMAIN contributor
    /\ request.pk \in DOMAIN pre.lists
    /\ pre.lists[request.pk].contributor # contributor[request.user]
    /\ ItemOfNamedList /\ MatchOfNamedItem /\ PreconditionHeld
    /\ response.kind = "not_found"

(* C11  Confirm and Reject are all-or-nothing: the committed tables change   *)
(* only when a call returns, and then by all of its writes at once; a call   *)
(* that fails after its first write (the facility insert of a Reject that    *)
(* exhausted the candidates) leaves the matches, the items and the           *)
(* facilities as they were, and the named match never shows as CONFIRMED     *)
(* without the item CONFIRMED_MATCH and linked to the match's facility.      *)

\* transaction t ends in this step
Ends(t) == txn[t].pc # "done" /\ txn'[t].pc = "done"

C11_AllOrNothing ==
    [][/\ \A t \in Txns :
            Ends(t) =>
                IF txn'[t].response.kind = "ok"
                THEN /\ items' = Override(items, txn[t].w_items)
                     /\ matches' = Override(matches, txn[t].w_matches)
                     /\ facilities' = Override(facilities, txn[t].w_facilities)
                     /\ lists' = lists
                     /\ txn[t].req.op = "confirm" =>
                            /\ matches'[TxnMatch(t)].status = "CONFIRMED"
                            /\ items'[TxnItem(t)].status = "CONFIRMED_MATCH"
                            /\ items'[TxnItem(t)].facility = matches'[TxnMatch(t)].facility
                     /\ \A f \in DOMAIN txn[t].w_facilities :
                            /\ items'[TxnItem(t)].facility = f
                            /\ \E m \in DOMAIN matches' \ DOMAIN matches :
                                    matches'[m].facility = f
                ELSE tables' = tables
       /\ tables' # tables => \E t \in Txns : Ends(t) /\ txn[t].pc = "commit"
      ]_vars

\* a Reject wrote the named match, found no candidate left, and its facility
\* insert hit the unique constraint on created_from, the facility of the
\* other call being committed: it ended with the error
C11_Witness ==
    \E t \in Txns :
        /\ txn[t].pc = "done"
        /\ txn[t].req.op = "reject"
        /\ txn[t].response.detail = "IntegrityError"
        /\ CreatedFromTaken(facilities, TxnItem(t))

(* C12  The identifier allocator never assigns to a new Facility an          *)
(* identifier that an existing Facility has: in any sequence of creations    *)
(* for one country code, one after the other, the candidate that becomes     *)
(* self.id is free, a colliding candidate having been discarded and          *)
(* regenerated, every creation succeeds, and the facilities created hold     *)
(* pairwise distinct identifiers beside the unchanged earlier ones.          *)

\* the facilities created from the items of the allocations
CreatedByAlloc == {f \in DOMAIN facilities : facilities[f].created_from \in AllocItemIds}

C12_NoCollision ==
    /\ \A t \in Txns :
        /\ txn[t].pc = "super_save" =>
                /\ txn[t].new_facility \notin DOMAIN facilities
                /\ txn[t].new_facility \notin txn[t].discarded
                /\ txn[t].new_facility[1] = txn[t].item[1].country_code
        /\ txn[t].pc = "done" =>
                /\ txn[t].response.kind = "ok"
                /\ txn[t].new_facility \in DOMAIN facilities
                /\ facilities[txn[t].new_facility].created_from = TxnItem(t)
    /\ \A f \in DOMAIN InitFacilities :
            f \in DOMAIN facilities /\ facilities[f] = InitFacilities[f]
    /\ Cardinality(CreatedByAlloc) =
            Cardinality({k \in AllocItemIds : CreatedFromTaken(facilities, k)})

\* a creation that came after another discarded the identifier the earlier
\* one had been given, and ended with a different one
C12_Witness ==
    \E t \in Txns :
        /\ txn[t].pc = "done"
        /\ txn[t].response.kind = "ok"
        /\ txn[t].discarded \cap (CreatedByAlloc \ {txn[t].new_facility}) # {}
        /\ Cardinality(CreatedByAlloc) >= 2

(* C13  Two concurrent facility creations that generate the same candidate:  *)
(* the uniqueness constraint keeps the two facilities from holding the same  *)
(* identifier, and the allocator retries with a fresh candidate on the       *)
(* constraint violation, so that both creations succeed with distinct        *)
(* identifiers.                                                            *)

C13_BothSucceed ==
    \A t \in Txns :
        txn[t].pc = "done" =>
            /\ txn[t].response.kind = "ok"
            /\ txn[t].new_facility \in DOMAIN facilities
            /\ facilities[txn[t].new_facility].created_from = TxnItem(t)

\* what the code does: the constraint holds, no row is overwritten, and the
\* creation that loses the race ends with the IntegrityError of the INSERT
C13_ConstraintOnly ==
    /\ \A t \in Txns :
        txn[t].pc = "done" =>
            \/ /\ txn[t].response.kind = "ok"
               /\ facilities[txn[t].new_facility].created_from = TxnItem(t)
            \/ /\ txn[t].response.detail = "IntegrityError"
               /\ txn[t].new_facility \in DOMAIN facilities
               /\ facilities[txn[t].new_facility].created_from # TxnItem(t)
               /\ ~CreatedFromTaken(facilities, TxnItem(t))
    /\ \A f \in DOMAIN InitFacilities :
            f \in DOMAIN facilities /\ facilities[f] = InitFacilities[f]

(* C14  A Facility's identifier is unique and immutable: every facility     *)
(* stays in the table under the identifier it had, through every upload,    *)
(* Confirm, Reject and later save of it, no operation removes it, and a     *)
(* facility that is created takes an identifier no facility had.           *)

C14_IdentifierImmutable ==
    /\ \A f \in DOMAIN pre.facilities :
        /\ f \in DOMAIN facilities
        /\ facilities[f].created_from = pre.facilities[f].created_from
    /\ \A f \in NewFacilities :
            \A g \in DOMAIN pre.facilities :
                facilities[f].created_from # pre.facilities[g].created_from
    /\ Handled("save_facility") => (response.kind = "ok" /\ RowsUnchanged)

\* a facility that a Reject created was saved again and kept its identifier
C14_Witness ==
    /\ Handled("save_facility")
    /\ response.kind = "ok"
    /\ request.data.facility \in DOMAIN facilities
    /\ facilities[request.data.facility].created_from \in AdjItemIds

(* C15  List replacement: an upload with replaces = L that succeeds makes    *)
(* the new list visible, active, together with L inactive, in one step; in   *)
(* no state that can be read is a list that has a replacer active; an        *)
(* upload naming a list that has a replacer is rejected and creates no       *)
(* list and no item.                                                       *)

ReplacedAreInactive ==
    \A n \in DOMAIN lists :
        lists[n].replaces # NoList => ~lists[lists[n].replaces].is_active

C15_ReplaceAtomically ==
    /\ []ReplacedAreInactive
    /\ [][\A t \in Txns :
            Ends(t) =>
                IF txn'[t].response.kind = "ok"
                THEN \E n \in DOMAIN lists' \ DOMAIN lists :
                        /\ DOMAIN lists' = DOMAIN lists \cup {n}
                        /\ lists'[n].is_active
                        /\ lists'[n].replaces = TxnReplaces(t)
                        /\ TxnReplaces(t) # NoList =>
                                /\ ~lists'[TxnReplaces(t)].is_active
                                /\ Replacers(lists, TxnReplaces(t)) = {}
                        /\ \A l \in DOMAIN lists \ {TxnReplaces(t)} : lists'[l] = lists[l]
                ELSE lists' = lists /\ items' = items
       ]_vars

\* one upload replaced a list that was active, and an upload that named the
\* same list afterwards was refused
C15_Witness ==
    \E t \in Txns : \E u \in Txns \ {t} :
        /\ txn[t].pc = "done" /\ txn[t].response.kind = "ok"
        /\ TxnReplaces(t) # NoList
        /\ ~lists[TxnReplaces(t)].is_active
        /\ txn[u].pc = "done"
        /\ TxnReplaces(u) = TxnReplaces(t)
        /\ txn[u].response.detail = "FacilityList has already been replaced."

(* C16  After any sequence or interleaving of uploads the replaces relation  *)
(* is a set of chains: every list is replaced by at most one list, replaces  *)
(* names a list that exists, and no list is reached from itself, also when   *)
(* two uploads that name the same list run concurrently.                    *)

\* the lists reached from l along replaces in at most k steps
RECURSIVE Replaced(_, _)
Replaced(l, k) ==
    IF k = 0 \/ lists[l].replaces = NoList THEN {}
    ELSE {lists[l].replaces} \cup Replaced(lists[l].replaces, k - 1)

C16_ReplacesChains ==
    \A l \in DOMAIN lists :
        /\ Cardinality(Replacers(lists, l)) <= 1
        /\ lists[l].replaces \in DOMAIN lists \cup {NoList}
        /\ l \notin Replaced(l, Cardinality(DOMAIN lists))

\* two uploads named the same list at once; one replaced it and the INSERT
\* of the other was refused by the unique constraint
C16_Witness ==
    \E t \in Txns : \E u \in Txns \ {t} :
        /\ txn[t].pc = "done" /\ txn[t].response.kind = "ok"
        /\ TxnReplaces(t) # NoList
        /\ txn[u].pc = "done"
        /\ TxnReplaces(u) = TxnReplaces(t)
        /\ txn[u].response.detail = "IntegrityError"
        /\ Cardinality(Replacers(lists, TxnReplaces(t))) = 1

\* a chain of two replacements
C16_WitnessChain ==
    \E l \in DOMAIN lists : Cardinality(Replaced(l, Cardinality(DOMAIN lists))) = 2

(* C17  Facility-link invariant: in every state reached through uploads,     *)
(* Confirm and Reject, an item with a facility link is MATCHED or            *)
(* CONFIRMED_MATCH, an item in CONFIRMED_MATCH has a facility link, and an   *)
(* item in ERROR, ERROR_PARSING, ERROR_GEOCODING or ERROR_MATCHING has       *)
(* none.                                                                   *)

C17_FacilityLink ==
    \A i \in DOMAIN items :
        /\ items[i].facility # NoFacility =>
                items[i].status \in {"MATCHED", "CONFIRMED_MATCH"}
        /\ items[i].status = "CONFIRMED_MATCH" =>
                (items[i].facility # NoFacility /\ items[i].facility \in DOMAIN facilities)
        /\ items[i].status \in ERROR_STATUSES => items[i].facility = NoFacility

\* beside the items of an uploaded list, an item that a Confirm linked to a
\* facility
C17_Witness ==
    /\ Handled("confirm") /\ response.kind = "ok"
    /\ items[ReqItem].status = "CONFIRMED_MATCH"
    /\ items[ReqItem].facility # NoFacility
    /\ \E j \in DOMAIN items : items[j].status = "UPLOADED"

(* C18  CONFIRMED_MATCH is reached only through adjudication: the status of  *)
(* an item changes only from POTENTIAL_MATCH, to CONFIRMED_MATCH by a        *)
(* Confirm or by a Reject that exhausts the candidates of an item with a     *)
(* point, or to ERROR_MATCHING by such a Reject of an item without one; an   *)
(* item in another status is left as it is by Confirm and Reject, and no     *)
(* other operation changes the status of an item.                           *)

C18_OnlyThroughAdjudication ==
    /\ \A i \in DOMAIN pre.items :
        /\ i \in DOMAIN items
        /\ items[i].status # pre.items[i].status =>
            /\ pre.items[i].status = "POTENTIAL_MATCH"
            /\ Adjudication /\ WellAddressed /\ PreconditionHeld
            /\ i = ReqItem
            /\ \/ /\ items[i].status = "CONFIRMED_MATCH"
                  /\ \/ Handled("confirm")
                     \/ Exhausting /\ pre.items[i].geocoded_point # NoPoint
               \/ /\ items[i].status = "ERROR_MATCHING"
                  /\ Exhausting /\ pre.items[i].geocoded_point = NoPoint
        /\ (Adjudication /\ pre.items[i].status # "POTENTIAL_MATCH") =>
                items[i] = pre.items[i]
    /\ \A i \in DOMAIN items \ DOMAIN pre.items : items[i].status = "UPLOADED"

\* a Reject that exhausted the candidates moved its item to CONFIRMED_MATCH
\* while the items of an uploaded list stayed UPLOADED
C18_Witness ==
    /\ Handled("reject") /\ response.kind = "ok"
    /\ pre.items[ReqItem].status = "POTENTIAL_MATCH"
    /\ items[ReqItem].status = "CONFIRMED_MATCH"
    /\ \E j \in DOMAIN items : items[j].status = "UPLOADED"

(* C19  A rejected upload mutates nothing: if the header is blank, lacks     *)
(* any of the country, name or address fields, or the header or any data    *)
(* row cannot be decoded, the upload returns a validation error, no list    *)
(* and no item is created, and a list named in replaces stays active and    *)
(* unreplaced.                                                             *)

\* the file posted with the request being handled
ReqFile == request.data.file

HeaderUndecodable == ~ReqFile.header.decodable

HeaderMalformed ==
    /\ ReqFile.header.decodable
    /\ HeaderError(rstrip(ReqFile.header.text)) # NoError

SomeRowUndecodable ==
    \E idx \in 1 .. Len(ReqFile.lines) : ~ReqFile.lines[idx].decodable

\* an upload of a file that the operation is to reject for its content
UploadOfBadFile ==
    /\ Handled("upload")
    /\ FileError(request.data) = NoError
    /\ HeaderUndecodable \/ HeaderMalformed \/ SomeRowUndecodable

C19_RejectedUploadMutatesNothing ==
    UploadOfBadFile =>
        /\ response.kind = "validation"
        /\ RowsUnchanged

\* what the handler does: nothing is written by a rejected upload, and the
\* answer is a validation error unless the header does not decode and the
\* user administers no contributor
C19_NoMutation ==
    UploadOfBadFile =>
        /\ RowsUnchanged
        /\ response.kind \in {"validation", "server_error"}
        /\ response.kind = "server_error" =>
                (HeaderUndecodable /\ ~HasContributor(request.user))

\* a file with an undecodable data row, replacing a list of the caller,
\* was refused and the list stays active and unreplaced
C19_RowRefused ==
    /\ UploadOfBadFile /\ ~HeaderUndecodable /\ ~HeaderMalformed
    /\ HasContributor(request.user)
    /\ ~Missing(request.data, "replaces")
    /\ IsInteger(request.data.replaces)
    /\ OwnList(pre, request.user, request.data.replaces[2])
    /\ ~ReplacesTaken(pre.lists, request.data.replaces[2])
    /\ response.kind = "validation"
    /\ lists[request.data.replaces[2]].is_active
    /\ RowsUnchanged

(* C20  A successful upload of n data rows creates exactly n items of the    *)
(* new list, every one UPLOADED with no facility link, with row indices     *)
(* exactly 0..n-1 in file order; and the row index is unique within each    *)
(* list after any sequence of uploads.                                     *)

UploadSucceeded == Handled("upload") /\ response.kind = "ok"

NewLists == DOMAIN lists \ DOMAIN pre.lists

NewItemPks == DOMAIN items \ DOMAIN pre.items

RowIndexUnique ==
    \A i, j \in DOMAIN items :
        (i # j /\ items[i].facility_list = items[j].facility_list) =>
            items[i].row_index # items[j].row_index

C20_ItemsOfUpload ==
    /\ UploadSucceeded =>
        LET n == Len(ReqFile.lines) IN
        /\ Cardinality(NewLists) = 1
        /\ Cardinality(NewItemPks) = n
        /\ \A k \in NewItemPks :
            /\ items[k].facility_list \in NewLists
            /\ items[k].status = "UPLOADED"
            /\ items[k].facility = NoFacility
            /\ items[k].row_index \in 0 .. (n - 1)
            \* the row at index r is the r-th data line, the line break removed
            /\ items[k].raw_data = rstrip(ReqFile.lines[items[k].row_index + 1].text)
        /\ {items[k].row_index : k \in NewItemPks} = 0 .. (n - 1)
        /\ \A i \in DOMAIN pre.items : items[i] = pre.items[i]
    /\ RowIndexUnique

\* an upload of MaxRows data rows succeeded
C20_Witness ==
    /\ UploadSucceeded
    /\ Len(ReqFile.lines) = MaxRows
    /\ Cardinality(NewItemPks) = MaxRows
    /\ \E k \in NewItemPks : items[k].row_index = MaxRows - 1

(* C21  uploadList validates the header, persists the list and its items,   *)
(* and then triggers submitForProcessing for the new list exactly once: the *)
(* trigger never fires for a rejected upload and never fires before the     *)
(* list and all of its items are persisted and visible to the pipeline.     *)

\* the upload of t has run submit_jobs and waits for its commit
AwaitsCommit(t) == txn[t].pc = "commit_upload"

\* the committed items of list l
ItemsOfList(itemTable, l) == {k \in DOMAIN itemTable : itemTable[k].facility_list = l}

\* list l and the n items of its file are committed: the pipeline, another
\* database session, can read them
VisibleToPipeline(l, n) ==
    /\ l \in DOMAIN lists
    /\ Cardinality(ItemsOfList(items, l)) = n

C21_TriggerOnceWhenPersisted ==
    /\ \A l \in submitted :
        \E t \in Txns :
            /\ txn[t].req.op = "upload"
            /\ AwaitsCommit(t) \/ txn[t].pc = "done"
            /\ VisibleToPipeline(l, Len(txn[t].req.data.file.lines))
    /\ \A t \in Txns :
        (txn[t].pc = "done" /\ CreatedBy(t) # {}) => CreatedBy(t) \subseteq submitted

\* what the handler does: the trigger fires for no upload that is refused,
\* and when it fires the list and its items are written, in a transaction
\* that may not have committed yet
C21_TriggerInsideTransaction ==
    \A l \in submitted :
        \E t \in Txns :
            /\ txn[t].req.op = "upload"
            /\ \/ /\ AwaitsCommit(t)
                  /\ l = TxnNewList(t)
                  /\ Cardinality(ItemsOfList(View(t).items, l)) =
                        Len(txn[t].req.data.file.lines)
               \/ /\ txn[t].pc = "done"
                  /\ l \in CreatedBy(t)
                  /\ VisibleToPipeline(l, Len(txn[t].req.data.file.lines))

\* submit_jobs has been called for a list that no other session can read
C21_FiredBeforeCommit ==
    \E l \in submitted : l \notin DOMAIN lists

(* C22  The result of a successful Confirm or Reject exposes the updated     *)
(* item together with list_statuses equal to exactly the set of distinct    *)
(* statuses held, after the operation, by all items of the same list: the   *)
(* new status of the adjudicated item is in it and no status held by no     *)
(* item of the list is.                                                    *)

AdjudicationSucceeded == Adjudication /\ response.kind = "ok"

C22_ResultExposesStatuses ==
    AdjudicationSucceeded =>
        /\ response.item = {[id |-> ReqItem, fields |-> items[ReqItem]]}
        /\ response.list_statuses =
                {items[k].status : k \in ItemsOfList(items, items[ReqItem].facility_list)}
        /\ items[ReqItem].status \in response.list_statuses
        /\ items[ReqItem].facility_list = request.pk

\* the last open item of a list was adjudicated while another list holds
\* uploaded items: the result reports the new status, with the status of the
\* seed item of the list and neither POTENTIAL_MATCH nor UPLOADED
C22_Witness ==
    /\ AdjudicationSucceeded
    /\ items[ReqItem].status # pre.items[ReqItem].status
    /\ response.list_statuses = {"MATCHED", items[ReqItem].status}
    /\ \E j \in DOMAIN items : items[j].status = "UPLOADED"

---------------------------------------------------------------------------
(* The projections of a Facility over its matched items (models.py          *)
(* 393-458), computed from the tables whenever they are read.               *)

\* the items of the matches of the facility, whatever their status
MatchedItemsOfAnyStatus(db, facility) ==
    {db.matches[m].facility_list_item :
        m \in {x \in DOMAIN db.matches : db.matches[x].facility = facility}}

\* lines 394-401: self.facilitymatch_set.filter(status__in=[AUTOMATIC,
\* CONFIRMED]).values_list('facility_list_item')
MatchedItems(db, facility) ==
    {db.matches[m].facility_list_item :
        m \in {x \in DOMAIN db.matches :
                /\ db.matches[x].facility = facility
                /\ db.matches[x].status \in {"AUTOMATIC", "CONFIRMED"}}}

\* match.facility_list of the item with pk i
ListOfItem(db, i) == db.lists[db.items[i].facility_list]

\* lines 393-413
other_names(db, facility) ==
    {db.items[i].name :
        i \in {x \in MatchedItems(db, facility) :
                /\ Len(db.items[x].name) # 0
                /\ db.items[x].name # db.facilities[facility].name
                /\ ListOfItem(db, x).is_active
                /\ ListOfItem(db, x).is_public}}

\* lines 415-435
other_addresses(db, facility) ==
    {db.items[i].address :
        i \in {x \in MatchedItems(db, facility) :
                /\ Len(db.items[x].address) # 0
                /\ db.items[x].address # db.facilities[facility].address
                /\ ListOfItem(db, x).is_active
                /\ ListOfItem(db, x).is_public}}

\* Contributor.name
ContributorName(c) == <<"contributor", c>>

\* Contributor.admin.id
AdminOf(c) == CHOOSE u \in DOMAIN contributor : contributor[u] = c

\* lines 449-452: "{} ({})".format(contributor.name, facility_list.name)
ContributorKey(db, l) == <<ContributorName(db.lists[l].contributor), db.lists[l].name>>

\* lines 453-457: the lists of the matched items that pass the three tests
ListedLists(db, facility) ==
    {db.items[i].facility_list :
        i \in {x \in MatchedItems(db, facility) :
                /\ ListOfItem(db, x).is_active
                /\ ListOfItem(db, x).is_public
                /\ ListOfItem(db, x).contributor # NoContributor}}

\* lines 437-458: a dict, one entry per key
contributors(db, facility) ==
    LET ls == ListedLists(db, facility) IN
    [key \in {ContributorKey(db, l) : l \in ls} |->
        AdminOf(db.lists[CHOOSE l \in ls : ContributorKey(db, l) = key].contributor)]

---------------------------------------------------------------------------
(* SpecRead: adjudication and replacing uploads, one request at a time,     *)
(* over lists that may be non-public, may have lost their contributor and   *)
(* may share a contributor and a name.                                      *)

\* two candidates and a point for every item left for adjudication
ReadShape == [k \in AdjItemIds |-> [npending |-> NumSeeds, point |-> TRUE]]

InitRead ==
    /\ \E public \in BOOLEAN, owner \in Contributors \cup {NoContributor},
          name \in {ListNameOf(l) : l \in ListIds} :
        lists = [InitLists EXCEPT ![1].is_public = public,
                                  ![2].contributor = owner,
                                  ![2].name = name]
    /\ items = InitItems(ReadShape)
    /\ matches = InitMatches(ReadShape)
    /\ facilities = InitFacilities
    /\ request = NoRequest
    /\ response = NoResponse
    /\ pre = DB
    /\ submitted = {}
    /\ txn = [t \in Txns |-> IdleTxn]

\* POST /api/facility-lists/ with a file that passes the checks
UploadParsed ==
    /\ request = NoRequest
    /\ \E req \in UploadsThatParse :
        /\ request' = req
        /\ pre' = DB
        /\ \E result \in create(DB, req) :
            /\ result.db # DB => Cardinality(DOMAIN lists) < Cardinality(ListIds) + MaxUploads
            /\ Commit(result)
            /\ submitted' = result.submitted
        /\ UNCHANGED txn

NextRead == UploadParsed \/ ConfirmMatch \/ RejectMatch \/ Deliver

SpecRead == InitRead /\ [][NextRead]_vars

(* C23  For every Facility F, other_names (resp. other_addresses) is        *)
(* exactly the set of distinct non-empty names (resp. addresses) of items   *)
(* that have a match to F with status AUTOMATIC or CONFIRMED and whose list *)
(* is both active and public, excluding values equal to F's own name        *)
(* (resp. address); it is the empty set when no item qualifies, and a       *)
(* PENDING or REJECTED match never contributes.                             *)

\* the matches of item i to facility F
MatchesTo(i, F) ==
    {m \in DOMAIN matches :
        matches[m].facility_list_item = i /\ matches[m].facility = F}

\* the items that have a match to F with status AUTOMATIC or CONFIRMED and
\* whose list is both active and public
Qualifying(F) ==
    {i \in DOMAIN items :
        /\ \E m \in MatchesTo(i, F) : matches[m].status \in {"AUTOMATIC", "CONFIRMED"}
        /\ lists[items[i].facility_list].is_active
        /\ lists[items[i].facility_list].is_public}

\* the items whose matches to F are all PENDING or REJECTED
OnlyOpenOrRejected(F) ==
    {i \in DOMAIN items :
        /\ MatchesTo(i, F) # {}
        /\ \A m \in MatchesTo(i, F) : matches[m].status \in {"PENDING", "REJECTED"}}

C23_OtherNamesAndAddresses ==
    \A F \in DOMAIN facilities :
        /\ other_names(DB, F) =
                {items[i].name : i \in Qualifying(F)} \ {EmptyString, facilities[F].name}
        /\ other_addresses(DB, F) =
                {items[i].address : i \in Qualifying(F)} \ {EmptyString, facilities[F].address}
        /\ Qualifying(F) = {} => (other_names(DB, F) = {} /\ other_addresses(DB, F) = {})
        /\ \A i \in OnlyOpenOrRejected(F) :
            /\ (\A j \in Qualifying(F) : items[j].name # items[i].name) =>
                    items[i].name \notin other_names(DB, F)
            /\ (\A j \in Qualifying(F) : items[j].address # items[i].address) =>
                    items[i].address \notin other_addresses(DB, F)

\* after a Confirm one facility shows the name and the address of the item,
\* and the facility of the rejected candidate shows neither
C23_Witness ==
    /\ Handled("confirm") /\ response.kind = "ok"
    /\ other_names(DB, items[ReqItem].facility) = {items[ReqItem].name}
    /\ other_addresses(DB, items[ReqItem].facility) = {items[ReqItem].address}
    /\ \E F \in DOMAIN facilities :
        /\ ReqItem \in OnlyOpenOrRejected(F)
        /\ other_names(DB, F) = {}

\* the list of a confirmed item was replaced, or is not public: the facility
\* shows neither its name nor its address
C23_WitnessHidden ==
    \E i \in DOMAIN items :
        /\ items[i].status = "CONFIRMED_MATCH"
        /\ ~lists[items[i].facility_list].is_active
        /\ other_names(DB, items[i].facility) = {}

(* C24  For every Facility F, contributors contains an entry for exactly    *)
(* the lists that are active, public and have a non-null contributor and    *)
(* that own an item with an AUTOMATIC or CONFIRMED match to F; deactivating *)
(* a list by replacement, or marking it non-public, removes its contributor *)
(* entry on the next read since the view is computed on demand.             *)

\* the lists an entry is due for
QualifyingLists(F) ==
    {l \in DOMAIN lists :
        /\ lists[l].is_active
        /\ lists[l].is_public
        /\ lists[l].contributor # NoContributor
        /\ \E i \in ItemsOfList(items, l) :
            \E m \in MatchesTo(i, F) : matches[m].status \in {"AUTOMATIC", "CONFIRMED"}}

C24_EntryPerName ==
    \A F \in DOMAIN facilities :
        /\ DOMAIN contributors(DB, F) = {ContributorKey(DB, l) : l \in QualifyingLists(F)}
        /\ \A l \in QualifyingLists(F) :
            contributors(DB, F)[ContributorKey(DB, l)] = AdminOf(lists[l].contributor)

\* a replacing upload deactivated the list of a confirmed item and the
\* entry of the list is gone from the facility
C24_EntryRemoved ==
    /\ Handled("upload") /\ response.kind = "ok"
    /\ \E i \in DOMAIN items :
        /\ items[i].status = "CONFIRMED_MATCH"
        /\ ~lists[items[i].facility_list].is_active
        /\ pre.lists[items[i].facility_list].is_active
        /\ ContributorKey(pre, items[i].facility_list)
                \in DOMAIN contributors(pre, items[i].facility)
        /\ ContributorKey(DB, items[i].facility_list)
                \notin DOMAIN contributors(DB, items[i].facility)

---------------------------------------------------------------------------
(* SpecNoResults: the two adjudication handlers over a hand-over state that *)
(* holds, beside the others, an item in GEOCODED_NO_RESULTS with one        *)
(* PENDING match, with or without a geocoded point.                         *)

NoResultsItemId == NumSeeds + NumItems + 1

NoResultsMatchId == NumSeeds + NumItems * NumSeeds + 1

NoResultsItem(point) ==
    [facility_list |-> 1, row_index |-> RowIndex(NoResultsItemId) + 1,
     raw_data |-> RawDataOf(NoResultsItemId),
     status |-> "GEOCODED_NO_RESULTS",
     geocoded_point |-> IF point THEN PointOf(NoResultsItemId) ELSE NoPoint,
     facility |-> NoFacility,
     processing_results |-> SubSeq(PipelineLog, 1, 2),
     name |-> NameOf(NoResultsItemId), address |-> AddressOf(NoResultsItemId),
     country_code |-> CountryOf(NoResultsItemId)]

NoResultsMatch ==
    [facility_list_item |-> NoResultsItemId, facility |-> SeedFacility(1),
     confidence |-> 51, status |-> "PENDING", results |-> "gazetteer_match"]

InitNoResults ==
    /\ \E shape \in InitShapes, point \in BOOLEAN :
        /\ items = InsertRow(InitItems(shape), NoResultsItemId, NoResultsItem(point))
        /\ matches = InsertRow(InitMatches(shape), NoResultsMatchId, NoResultsMatch)
    /\ lists = InitLists
    /\ facilities = InitFacilities
    /\ request = NoRequest
    /\ response = NoResponse
    /\ pre = DB
    /\ submitted = {}
    /\ txn = [t \in Txns |-> IdleTxn]

SpecNoResults == InitNoResults /\ [][Next]_vars

(* C25  In reject-to-exhaustion the status check takes precedence over the  *)
(* point: an item whose status is GEOCODED_NO_RESULTS goes to               *)
(* ERROR_MATCHING and creates no facility even when a geocoded point is     *)
(* present.                                                                *)

\* a Reject of the last PENDING match of an item in GEOCODED_NO_RESULTS
RejectOfNoResultsItem ==
    /\ Handled("reject") /\ WellAddressed
    /\ pre.items[ReqItem].status = "GEOCODED_NO_RESULTS"
    /\ pre.matches[ReqMatch].status = "PENDING"
    /\ OtherPendingBefore = {}

MatchesWithStatus(i, status) ==
    {m \in MatchesOf(matches, i) : matches[m].status = status}

C26_ConfirmedItemHasOneMatch ==
    \A i \in DOMAIN items :
        items[i].status = "CONFIRMED_MATCH" =>
            /\ Cardinality(MatchesWithStatus(i, "CONFIRMED")) = 1
            /\ MatchesWithStatus(i, "PENDING") = {}
            /\ \A m \in MatchesWithStatus(i, "CONFIRMED") :
                    items[i].facility = matches[m].facility

\* an item confirmed against one of two candidates: the other one is
\* REJECTED
C26_Witness ==
    \E i \in DOMAIN items :
        /\ items[i].status = "CONFIRMED_MATCH"
        /\ Cardinality(MatchesOf(matches, i)) = NumSeeds
        /\ Cardinality(MatchesWithStatus(i, "REJECTED")) = NumSeeds - 1

\* an item whose candidates were all rejected: its one CONFIRMED match is
\* the one created with the facility
C26_WitnessCreated ==
    \E i \in DOMAIN items :
        /\ items[i].status = "CONFIRMED_MATCH"
        /\ items[i].facility \notin DOMAIN InitFacilities
        /\ Cardinality(MatchesWithStatus(i, "REJECTED")) = NumSeeds

---------------------------------------------------------------------------
(* SpecPair: two calls of the adjudication handlers, one in each slot, as   *)
(* database transactions over the hand-over state; a slot is used once.     *)

NextPair ==
    \E t \in Txns :
        \/ Begin(t)
        \/ SelectList(t)
        \/ SelectItem(t)
        \/ SelectMatch(t)
        \/ SaveMatch(t)
        \/ UpdateOthers(t)
        \/ CountPending(t)
        \/ PickOarId(t)
        \/ InsertFacility(t)
        \/ InsertMatch(t)
        \/ SaveItem(t)
        \/ CommitTxn(t)
        \/ DeadlockAbort(t)

SpecPair == Init /\ [][NextPair]_vars

(* C27  For concurrent Confirm(I, M1) and Confirm(I, M2) on two different   *)
(* PENDING matches of the same item, in every interleaving the final state  *)
(* has exactly one CONFIRMED match on I and I.facility equals that match's  *)
(* facility, and at most one of the two calls reports success.              *)

TxnOk(t) == txn[t].pc = "done" /\ txn[t].response.kind = "ok"

\* the two calls of SpecPair are over: two Confirm calls on one item and
\* two of its matches, both PENDING when the first call began
TwoConfirmsOver(t, u) ==
    /\ txn[t].pc = "done" /\ txn[u].pc = "done"
    /\ txn[t].req.op = "confirm" /\ txn[u].req.op = "confirm"
    /\ TxnItem(t) = TxnItem(u)
    /\ TxnMatch(t) # TxnMatch(u)

OneConfirmedAndLinked(i) ==
    /\ Cardinality(MatchesWithStatus(i, "CONFIRMED")) = 1
    /\ \A m \in MatchesWithStatus(i, "CONFIRMED") : items[i].facility = matches[m].facility

C27_OneConfirmWins ==
    \A t \in Txns : \A u \in Txns \ {t} :
        TwoConfirmsOver(t, u) =>
            /\ OneConfirmedAndLinked(TxnItem(t))
            /\ ~(TxnOk(t) /\ TxnOk(u))

\* what holds of the final state, whoever reported success
C27_FinalStateConsistent ==
    \A t \in Txns : \A u \in Txns \ {t} :
        TwoConfirmsOver(t, u) =>
            /\ OneConfirmedAndLinked(TxnItem(t))
            /\ items[TxnItem(t)].status = "CONFIRMED_MATCH"

\* both calls reported success
C27_BothSucceeded ==
    \E t \in Txns : \E u \in Txns \ {t} :
        TwoConfirmsOver(t, u) /\ TxnOk(t) /\ TxnOk(u)

(* C28  No stuck item under sequential adjudication: starting from items in *)
(* POTENTIAL_MATCH that each have at least one PENDING match, after any     *)
(* sequence of sequential Confirm and Reject calls every item still in      *)
(* POTENTIAL_MATCH has at least one PENDING match.                          *)

C28_NoStuckItem ==
    \A i \in DOMAIN items :
        items[i].status = "POTENTIAL_MATCH" => MatchesWithStatus(i, "PENDING") # {}

\* a Reject that was not the last one left its item open, with one candidate
\* rejected and another still PENDING
C28_Witness ==
    /\ Handled("reject") /\ response.kind = "ok"
    /\ items[ReqItem].status = "POTENTIAL_MATCH"
    /\ matches[ReqMatch].status = "REJECTED"
    /\ MatchesWithStatus(ReqItem, "PENDING") # {}

\* a Reject of the last candidate took its item out of POTENTIAL_MATCH
C28_WitnessExhausted ==
    /\ Exhausting
    /\ items[ReqItem].status # "POTENTIAL_MATCH"
    /\ MatchesWithStatus(ReqItem, "PENDING") = {}

(* C29  For concurrent Reject(I, M1) and Reject(I, M2) on the last two      *)
(* PENDING matches of the same item, no interleaving ends with both matches *)
(* REJECTED while I remains in POTENTIAL_MATCH with no PENDING match (an    *)
(* item that no further Confirm or Reject can ever move).                   *)

\* the two calls of SpecPair are over: two Reject calls on one item and its
\* two matches, both PENDING when the first call began
TwoRejectsOver(t, u) ==
    /\ txn[t].pc = "done" /\ txn[u].pc = "done"
    /\ txn[t].req.op = "reject" /\ txn[u].req.op = "reject"
    /\ TxnItem(t) = TxnItem(u)
    /\ TxnMatch(t) # TxnMatch(u)

\* item i is open with no candidate left: PreconditionError refuses every
\* Confirm and Reject that names it
Stuck(i) ==
    /\ items[i].status = "POTENTIAL_MATCH"
    /\ MatchesWithStatus(i, "PENDING") = {}

C29_NoStuckItemAfterTwoRejects ==
    \A t \in Txns : \A u \in Txns \ {t} :
        TwoRejectsOver(t, u) =>
            ~(/\ matches[TxnMatch(t)].status = "REJECTED"
              /\ matches[TxnMatch(u)].status = "REJECTED"
              /\ Stuck(TxnItem(t)))

\* when the second call counts after the first has committed, the item is
\* moved on by the second call
C29_SecondCountsAfterCommit ==
    \E t \in Txns : \E u \in Txns \ {t} :
        /\ TwoRejectsOver(t, u)
        /\ TxnOk(t) /\ TxnOk(u)
        /\ ~Stuck(TxnItem(t))

---------------------------------------------------------------------------
(* SpecLive: Spec with an administrator who keeps adjudicating: a response  *)
(* is delivered in the end, and a call that adjudicates a PENDING match of  *)
(* an open item is made again and again as long as there is one.            *)

\* a Confirm or Reject of a match of item i that succeeds
AdjudicatePending(i) ==
    /\ request = NoRequest
    /\ items[i].status = "POTENTIAL_MATCH"
    /\ ConfirmMatch \/ RejectMatch
    /\ "list_item_id" \in DOMAIN request'.data
    /\ request'.data.list_item_id = i
    /\ response'.kind = "ok"

SpecLive ==
    /\ Init /\ [][Next]_vars
    /\ WF_vars(Deliver)
    /\ \A i \in AdjItemIds : SF_vars(AdjudicatePending(i))

(* C30  Adjudication terminates: an item in POTENTIAL_MATCH with n PENDING  *)
(* matches reaches CONFIRMED_MATCH or ERROR_MATCHING after at most n        *)
(* successful sequential adjudication calls, and if the administrator keeps *)
(* adjudicating PENDING matches the item eventually leaves POTENTIAL_MATCH. *)

PendingOf(matchTable, i) ==
    {m \in MatchesOf(matchTable, i) : matchTable[m].status = "PENDING"}

\* every successful call leaves its item with fewer PENDING matches than
\* before, and an open item has had fewer successful calls, one for each
\* REJECTED match, than it had candidates; with none left it is closed
CallsAreCounted ==
    /\ AdjudicationSucceeded =>
        /\ Cardinality(PendingOf(matches, ReqItem)) < Cardinality(PendingOf(pre.matches, ReqItem))
        /\ PendingOf(matches, ReqItem) = {} =>
                items[ReqItem].status \in {"CONFIRMED_MATCH", "ERROR_MATCHING"}
    /\ \A i \in AdjItemIds :
        IF items[i].status = "POTENTIAL_MATCH"
        THEN /\ PendingOf(matches, i) # {}
             /\ Cardinality(MatchesWithStatus(i, "REJECTED")) + Cardinality(PendingOf(matches, i))
                    = Cardinality(MatchesOf(matches, i))
        ELSE items[i].status \in {"CONFIRMED_MATCH", "ERROR_MATCHING"}

C30_AdjudicationTerminates ==
    /\ []CallsAreCounted
    /\ \A i \in AdjItemIds :
        (items[i].status = "POTENTIAL_MATCH")
            ~> (items[i].status \in {"CONFIRMED_MATCH", "ERROR_MATCHING"})

\* the n-th successful call on an item that had n = NumSeeds candidates,
\* all Rejects, closed it
C30_Witness ==
    /\ Exhausting /\ response.kind = "ok"
    /\ Cardinality(MatchesOf(pre.matches, ReqItem)) = NumSeeds
    /\ Cardinality(MatchesWithStatus(ReqItem, "REJECTED")) = NumSeeds
    /\ items[ReqItem].status \in {"CONFIRMED_MATCH", "ERROR_MATCHING"}
---------------------------------------------------------------------------
(* C31  Match status is monotonic under sequential adjudication: no Confirm *)
(* or Reject sets a match back to PENDING, a REJECTED match never becomes   *)
(* CONFIRMED and a CONFIRMED match never becomes REJECTED; a match that is  *)
(* REJECTED or CONFIRMED keeps its status and its row in every later step.  *)

StatusStepAllowed(before, after) ==
    /\ after = "PENDING" => before = "PENDING"
    /\ before = "REJECTED" => after = "REJECTED"
    /\ before = "CONFIRMED" => after = "CONFIRMED"

C31_MatchStatusMonotonic ==
    [][\A m \in DOMAIN matches :
            /\ m \in DOMAIN matches'
            /\ StatusStepAllowed(matches[m].status, matches'[m].status)]_vars

\* a Confirm went through on an item one of whose other matches had been
\* REJECTED by an earlier call: that match is still REJECTED, the named one
\* went from PENDING to CONFIRMED
C31_Witness ==
    /\ Handled("confirm") /\ WellAddressed /\ response.kind = "ok"
    /\ pre.matches[ReqMatch].status = "PENDING"
    /\ matches[ReqMatch].status = "CONFIRMED"
    /\ \E m \in MatchesOf(pre.matches, ReqItem) \ {ReqMatch} :
        /\ pre.matches[m].status = "REJECTED"
        /\ matches[m].status = "REJECTED"
(* C32  Confirm and Reject on item I leave unchanged the status, facility   *)
(* link and processing-result log of every other item, the status of every  *)
(* match that belongs to another item, every field of every existing        *)
(* Facility, and the active and public flags of every list.                *)

\* the items the call handled last does not name
ItemsNotNamed ==
    IF "list_item_id" \in DOMAIN request.data
    THEN DOMAIN pre.items \ {request.data.list_item_id}
    ELSE DOMAIN pre.items

C32_AdjudicationFrame ==
    Adjudication =>
        /\ \A i \in ItemsNotNamed :
            /\ i \in DOMAIN items
            /\ items[i].status = pre.items[i].status
            /\ items[i].facility = pre.items[i].facility
            /\ items[i].processing_results = pre.items[i].processing_results
        /\ \A m \in DOMAIN pre.matches :
            pre.matches[m].facility_list_item \in ItemsNotNamed =>
                /\ m \in DOMAIN matches
                /\ matches[m].status = pre.matches[m].status
        /\ \A f \in DOMAIN pre.facilities :
            /\ f \in DOMAIN facilities
            /\ facilities[f] = pre.facilities[f]
        /\ DOMAIN lists = DOMAIN pre.lists
        /\ \A l \in DOMAIN pre.lists :
            /\ lists[l].is_active = pre.lists[l].is_active
            /\ lists[l].is_public = pre.lists[l].is_public

\* a Confirm changed its item and the item's matches while other items with
\* matches of their own, facilities and a list made inactive by an upload
\* were there to be left alone
C32_Witness ==
    /\ Handled("confirm") /\ WellAddressed /\ response.kind = "ok"
    /\ items[ReqItem] # pre.items[ReqItem]
    /\ OtherPendingBefore # {}
    /\ \E m \in DOMAIN pre.matches : pre.matches[m].facility_list_item # ReqItem
    /\ \E l \in DOMAIN pre.lists : ~pre.lists[l].is_active

\* a Reject created a facility and a match and left the existing ones alone
C32_WitnessReject ==
    /\ Exhausting /\ response.kind = "ok"
    /\ NewFacilities # {}
    /\ \E i \in ItemsNotNamed : pre.items[i].status = "UPLOADED"
(* C33  The set of facilities grows only by reject-to-exhaustion with a     *)
(* geocoded point: Confirm, Reject with PENDING matches remaining, Reject   *)
(* ending in ERROR_MATCHING, failed calls and uploads create no Facility    *)
(* and no match and delete none, and each facility-creating Reject          *)
(* increases the number of facilities and the number of matches by exactly  *)
(* one each.                                                               *)

\* the call handled last is a Reject that left no PENDING match on an item
\* that has a geocoded point
CreatingReject ==
    /\ Exhausting
    /\ pre.items[ReqItem].geocoded_point # NoPoint

C33_FacilitiesGrowOnlyByExhaustion ==
    /\ DOMAIN pre.facilities \subseteq DOMAIN facilities
    /\ DOMAIN pre.matches \subseteq DOMAIN matches
    /\ IF CreatingReject
       THEN /\ Cardinality(DOMAIN facilities) = Cardinality(DOMAIN pre.facilities) + 1
            /\ Cardinality(DOMAIN matches) = Cardinality(DOMAIN pre.matches) + 1
       ELSE NothingCreated

\* a Reject created a facility and a match in a state an upload had extended
C33_Witness ==
    /\ CreatingReject
    /\ Cardinality(NewFacilities) = 1
    /\ Cardinality(NewMatches) = 1
    /\ Cardinality(DOMAIN pre.lists) > Cardinality(ListIds)

\* an upload created a list and its items, and no facility and no match
C33_WitnessUpload ==
    /\ UploadSucceeded
    /\ NewItemPks # {}
    /\ NothingCreated

\* a Reject ended in ERROR_MATCHING and created nothing
C33_WitnessError ==
    /\ Exhausting
    /\ items[ReqItem].status = "ERROR_MATCHING"
    /\ NothingCreated
(* C34  No two facilities share a seed item: across all interleavings,      *)
(* including two concurrent Reject calls on the same last PENDING match of  *)
(* an item, at most one Facility is created from that item and at most one  *)
(* fallback CONFIRMED match is created for it.                             *)

\* the committed facilities that were created from item i
CreatedFrom(i) == {f \in DOMAIN facilities : facilities[f].created_from = i}

\* the committed matches of item i that a reject-to-exhaustion created
FallbackMatches(i) ==
    {m \in MatchesOf(matches, i) :
        /\ matches[m].results = "all_potential_matches_rejected"
        /\ matches[m].status = "CONFIRMED"}

C34_OneFacilityPerSeed ==
    \A i \in DOMAIN items :
        /\ Cardinality(CreatedFrom(i)) <= 1
        /\ Cardinality(FallbackMatches(i)) <= 1

\* two Reject calls that name the same match of the same item are over
TwoRejectsOfLastMatch(t, u) ==
    /\ t # u
    /\ txn[t].pc = "done" /\ txn[u].pc = "done"
    /\ txn[t].req.op = "reject" /\ txn[u].req.op = "reject"
    /\ txn[t].req.data = txn[u].req.data

\* both passed the precondition and found no PENDING match left: one created
\* the facility and the fallback match, the other went on to the INSERT too
\* and met the unique constraint on created_from
C34_Witness ==
    \E t, u \in Txns :
        /\ TwoRejectsOfLastMatch(t, u)
        /\ txn[t].response.kind = "ok"
        /\ txn[u].response = ErrorResponse(ServerError("IntegrityError"))
        /\ Cardinality(CreatedFrom(TxnItem(t))) = 1
        /\ Cardinality(FallbackMatches(TxnItem(t))) = 1
(* C35  An upload can replace only a list owned by the uploading            *)
(* contributor: an upload that names in replaces a list owned by another    *)
(* contributor, or an id no list has, is rejected, creates no list and no   *)
(* item, and leaves the named list as active and as unreplaced as it was.   *)

\* the upload handled last posted an integer as replaces
NamesReplaced ==
    /\ Handled("upload")
    /\ "replaces" \in DOMAIN request.data
    /\ IsInteger(request.data.replaces)

ReqReplaces == request.data.replaces[2]

\* the list named is one of the uploading user's contributor
NamesOwnList ==
    /\ request.user \in DOMAIN contributor
    /\ ReqReplaces \in DOMAIN pre.lists
    /\ pre.lists[ReqReplaces].contributor = contributor[request.user]

C35_ReplaceOnlyOwnList ==
    (NamesReplaced /\ ~NamesOwnList) =>
        /\ response.kind \notin {"ok", "none"}
        /\ NewLists = {}
        /\ NewItemPks = {}
        /\ lists = pre.lists
        /\ Replacers(lists, ReqReplaces) = Replacers(pre.lists, ReqReplaces)

\* a contributor posted a file that parses and named the active, unreplaced
\* list of another contributor: refused, and the list is still active and
\* unreplaced
C35_Witness ==
    /\ NamesReplaced /\ ~NamesOwnList
    /\ request.user \in DOMAIN contributor
    /\ FileError(request.data) = NoError
    /\ request.data.file.header = ValidHeaderLine
    /\ ReqReplaces \in DOMAIN pre.lists
    /\ pre.lists[ReqReplaces].is_active
    /\ Replacers(pre.lists, ReqReplaces) = {}
    /\ response = ErrorResponse(ValidationError("not a valid FacilityList ID."))
    /\ lists[ReqReplaces].is_active
    /\ Replacers(lists, ReqReplaces) = {}

\* the same with an id that no list has
C35_WitnessUnknown ==
    /\ NamesReplaced
    /\ request.user \in DOMAIN contributor
    /\ ReqReplaces \notin DOMAIN pre.lists
    /\ response = ErrorResponse(ValidationError("not a valid FacilityList ID."))
(* C36  After any sequence of uploads every list that has been replaced by  *)
(* another list is inactive, so that in each replaces chain at most the     *)
(* newest (unreplaced) list is active: every list reached from a list along *)
(* replaces is inactive, and a list that is active has no replacer.         *)

\* the lists of the chain that ends with l: l and those it replaced, directly or not
Chain(l) == {l} \cup Replaced(l, Cardinality(DOMAIN lists))

ActiveLists(S) == {l \in S : lists[l].is_active}

C36_NewestOnlyActive ==
    \A l \in DOMAIN lists :
        /\ \A o \in Replaced(l, Cardinality(DOMAIN lists)) : ~lists[o].is_active
        /\ lists[l].is_active => Replacers(lists, l) = {}
        /\ Cardinality(ActiveLists(Chain(l))) <= 1

\* a list was replaced and its replacer was replaced in turn: the newest
\* list of the chain is active and the two older ones are not
C36_Witness ==
    \E l \in DOMAIN lists :
        /\ Cardinality(Chain(l)) = 3
        /\ Replacers(lists, l) = {}
        /\ ActiveLists(Chain(l)) = {l}
        /\ \A t \in Txns : txn[t].pc \in {"idle", "done"}
---------------------------------------------------------------------------
(* FacilitiesViewSet.list, views.py 395-494: GET /api/facilities/, open to  *)
(* anyone (AllowAny).  The result is the queryset, a set of facility ids,   *)
(* before it is cut into pages.                                            *)

\* Contributor.contrib_type of the two contributors
contrib_type == [c \in Contributors |-> IF c = "c1" THEN "Auditor" ELSE "Brand/Retailer"]

\* request.query_params.get(NAME, None) is None
NoName == <<>>

\* the text of a word or a number of a name, in lower case
casefold(word) ==
    IF ToString(word) = ToString("Name") THEN ToString("name") ELSE ToString(word)

\* line 455, name__icontains: the text holds what was asked for, whatever the case
icontains(text, name) ==
    \E first \in 1 .. (Len(text) - Len(name) + 1) :
        \A k \in 1 .. Len(name) : casefold(text[first + k - 1]) = casefold(name[k])

\* lines 461-471 and 476-486: the facilities of the AUTOMATIC and CONFIRMED
\* matches of the items of the active lists of the contributors in owners
match_facility_ids(db, owners) ==
    {db.matches[m].facility :
        m \in {x \in DOMAIN db.matches :
                /\ db.matches[x].status \in {"AUTOMATIC", "CONFIRMED"}
                /\ ListOfItem(db, db.matches[x].facility_list_item).contributor \in owners
                /\ ListOfItem(db, db.matches[x].facility_list_item).is_active}}

\* lines 460-473
type_match_facility_ids(db, contributor_types) ==
    match_facility_ids(db, {c \in Contributors : contrib_type[c] \in contributor_types})

\* lines 475-488
name_match_facility_ids(db, contributors_asked) ==
    match_facility_ids(db, {c \in Contributors : c \in contributors_asked})

\* lines 441-488: the queryset after the four optional filters
list(db, query_params) ==
    LET type_ids == type_match_facility_ids(db, query_params.contributor_types)
        name_ids == name_match_facility_ids(db, query_params.contributors)
    IN {f \in DOMAIN db.facilities :
            /\ query_params.name # NoName =>
                    icontains(db.facilities[f].name, query_params.name)
            /\ query_params.countries # {} =>
                    db.facilities[f].country_code \in query_params.countries
            /\ query_params.contributor_types # {} => f \in type_ids
            /\ query_params.contributors # {} => f \in name_ids}

\* the query strings sent: with or without a name, in another case than the
\* stored one, and any set of countries, contributors and contributor types
QueryParams ==
    [name : {NoName, <<"Name">>, <<"Name", 1>>},
     countries : SUBSET {CountryOf(k) : k \in AllItemIds},
     contributor_types : SUBSET {contrib_type[c] : c \in Contributors},
     contributors : SUBSET Contributors]

(* C37  The result of queryFacilities filtered by contributor ids or        *)
(* contributor types does not depend on items of non-public lists: two      *)
(* states that differ only in the matches of items whose list is not public *)
(* return the same facilities, as the derived contributors view does.  Two  *)
(* such states have the same matches of items of public lists, so the       *)
(* result must be the one computed from those matches alone.                *)

\* the tables without the matches of the items of the lists in hidden
WithoutMatchesOf(db, hidden) ==
    [db EXCEPT !.matches =
        [m \in {x \in DOMAIN db.matches :
                    db.items[db.matches[x].facility_list_item].facility_list \notin hidden}
            |-> db.matches[m]]]

NonPublicLists == {l \in DOMAIN lists : ~lists[l].is_public}

InactiveLists == {l \in DOMAIN lists : ~lists[l].is_active}

\* the queries that filter by contributor ids or by contributor types
ByContributor == {q \in QueryParams : q.contributors # {} \/ q.contributor_types # {}}

C37_NonPublicListsDoNotShow ==
    \A q \in ByContributor : list(DB, q) = list(WithoutMatchesOf(DB, NonPublicLists), q)

\* the contributors view of a facility does not depend on those matches
C37_ContributorsViewHides ==
    \A f \in DOMAIN facilities :
        contributors(DB, f) = contributors(WithoutMatchesOf(DB, NonPublicLists), f)

\* the result of a query by contributor alone does not depend on the matches
\* of the items of inactive lists
C37_InactiveListsDoNotShow ==
    LET shown == WithoutMatchesOf(DB, InactiveLists) IN
    \A owners \in SUBSET Contributors, types \in SUBSET {contrib_type[c] : c \in Contributors} :
        LET q == [name |-> NoName, countries |-> {},
                  contributor_types |-> types, contributors |-> owners]
        IN list(DB, q) = list(shown, q)

\* a query by contributor returns a facility that only an item of a
\* non-public list of that contributor is matched to, and the contributors
\* view of the facility is empty
C37_NonPublicListShows ==
    \E q \in ByContributor : \E f \in list(DB, q) :
        /\ q.contributor_types = {} /\ q.name = NoName /\ q.countries = {}
        /\ f \notin list(WithoutMatchesOf(DB, NonPublicLists), q)
        /\ DOMAIN contributors(DB, f) = {}
        /\ request.op = "confirm" /\ response.kind = "ok"
        /\ items[ReqItem].facility = f

=============================================================================
